---- MODULE Spec2Model ----
(***************************************************************************)
(* Model of the core of the Agentic RAG chatbot: the indexer's Chunker and *)
(* Embedder, the backend's hybrid search (VectorRepository) and the        *)
(* conversation memory (MemoryService behind the chat endpoint).           *)
(*                                                                         *)
(* Texts are abstracted by their tokenisation. A word (a run of characters *)
(* without whitespace) is represented by its cl100k_base token count when  *)
(* it stands alone and its count when a single space precedes it; a text   *)
(* is the sequence of its words, each with the whitespace that precedes it *)
(* in the text. The pre-tokenisation pattern of cl100k_base never lets a   *)
(* token span two words, so count_tokens of a text is a sum over its words *)
(* and the whitespace between them, but not the sum of count_tokens of the *)
(* words: a single space merges into the piece that follows it (or stays a *)
(* token of its own before a digit), a line break is a token of its own.   *)
(***************************************************************************)
EXTENDS Integers, Sequences, FiniteSets, TLC

\* ------------------------------------------------------------------------
\* Bounds of the model
\* ------------------------------------------------------------------------
MaxSentences == 3
MaxWords == 2
MaxWordTokens == 3
MaxChunkSize == 4
\* scaled-down settings.max_memory_messages and settings.max_memory_tokens
MaxMemoryMessages == 2
MaxMemoryTokens == 3
MaxRequests == 2
MaxBatch == 2
MaxRetryCount == 3
MaxChunks == 3
MaxTopK == 2
MaxRetrievalChunks == 2
MaxIndexChunks == 3

\* ------------------------------------------------------------------------
\* Generic helpers
\* ------------------------------------------------------------------------
SeqsUpTo(S, n) == UNION {[1..k -> S] : k \in 0..n}

RECURSIVE SumSeq(_)
SumSeq(s) == IF s = <<>> THEN 0 ELSE Head(s) + SumSeq(Tail(s))

RECURSIVE Flatten(_)
Flatten(ss) == IF ss = <<>> THEN <<>> ELSE Head(ss) \o Flatten(Tail(ss))

Last(s) == s[Len(s)]

VARIABLES
    \* Chunker.chunk_document
    document,            \* the sentences of document["content"], in order
    chunk_size,          \* Chunker.chunk_size
    chunk_overlap,       \* Chunker.chunk_overlap
    chunk_dicts,         \* the list chunk_document returned
    chunk_pc,            \* "ready" before the call, "done" after it
    content_kind,        \* document["content"]: "missing", "empty", "whitespace"
                         \* or "text", a text with at least one sentence
    chunk_signals,       \* the levels of the records the call logged
    \* conversation memory (tables conversations and messages, HTTP requests)
    conversations,       \* the rows of conversations: their ids
    messages,            \* the rows of messages, ordered by created_at, those
                         \* of the transactions under way included
    next_req,            \* number of requests received so far
    chat,                \* per request: the handler it runs, its position and locals
    \* Embedder.embed_text and Embedder.embed_batch
    emb_mode,            \* the method called: "embed_text" or "embed_batch"
    texts,               \* its input: the texts to embed
    retry_count,         \* retry_count of the embed_text calls
    emb_pc,              \* position in embed_batch / embed_text
    emb_idx,             \* idx of embed_batch (1-based), 1 for a lone embed_text
    attempt,             \* attempt of the running embed_text
    provider_calls,      \* outcomes of its requests.post calls, in order
    sleeps,              \* the delays it passed to time.sleep, in order
    emb_result,          \* how the running embed_text ended
    embeddings,          \* the list embed_batch builds
    emb_log,             \* per finished embed_text of the batch: how it ended
    \* VectorRepository.hybrid_search
    table,               \* the chunks table as the query sees it, in insertion order
    top_k,               \* parameter top_k
    vector_weight,       \* parameter vector_weight, in tenths
    bm25_weight,         \* parameter bm25_weight, in tenths
    hyb_pc,              \* "ready" before the call, "done" after it
    vector_search,       \* rows of the CTE vector_search
    bm25_search,         \* rows of the CTE bm25_search
    fused,               \* rows of the FULL OUTER JOIN, before ORDER BY / LIMIT
    hyb_result,          \* the list hybrid_search returned
    \* RetrievalService.retrieve
    ret_pc,              \* "ready" before the call, "done" after it
    ret_args,            \* its arguments query, top_k and filters
    ret_calls,           \* the calls it made to the provider and the storage
    ret_result,          \* how it ended
    \* RerankingTool._run
    rr_pc,               \* "ready" before the call, "done" after it
    rr_chunks_json,      \* argument chunks_json
    rr_top_k,            \* argument top_k
    rr_responses,        \* what LLMService.generate answered, call by call
    rr_reranked,         \* the list reranked after the sort
    rr_output,           \* the output that _run dumps as JSON
    \* the indexing of one document (src/indexer/main.py)
    ix_pc,               \* where the indexing of the document stands
    ix_chunks,           \* main's list of the chunks chunk_document returned
    ix_batch_size,       \* BatchProcessor.batch_size
    ix_processed,        \* what process_chunks returned
    ix_failed,           \* failed_count of process_chunks
    ix_store_calls,      \* the calls made to VectorStore.store_chunk
    ix_stored,           \* the rows of table chunks
    ix_result,           \* what store_document_with_chunks returned
    \* concurrent operations of MemoryService on one database
    \* (ConversationRepository.get_or_create)
    conv_table,          \* the rows of table conversations, by session_id
    goc,                 \* the operation of each request and where it stands
    goc_messages         \* the turns these operations appended

chunkerVars == <<document, chunk_size, chunk_overlap, chunk_dicts, chunk_pc,
                 content_kind, chunk_signals>>

memoryVars == <<conversations, messages, next_req, chat>>

embedderVars == <<emb_mode, texts, retry_count, emb_pc, emb_idx, attempt,
                  provider_calls, sleeps, emb_result, embeddings, emb_log>>

hybridVars == <<table, top_k, vector_weight, bm25_weight, hyb_pc,
                vector_search, bm25_search, fused, hyb_result>>

retrievalVars == <<ret_pc, ret_args, ret_calls, ret_result>>

rerankVars == <<rr_pc, rr_chunks_json, rr_top_k, rr_responses, rr_reranked, rr_output>>

indexerVars == <<ix_pc, ix_chunks, ix_batch_size, ix_processed, ix_failed,
                 ix_store_calls, ix_stored, ix_result>>

sessionVars == <<conv_table, goc, goc_messages>>

vars == <<chunkerVars, memoryVars, embedderVars, hybridVars, retrievalVars,
          rerankVars, indexerVars, sessionVars>>

\* what the actions of one component leave alone
notChunker == <<memoryVars, embedderVars, hybridVars, retrievalVars, rerankVars,
                indexerVars, sessionVars>>
notMemory == <<chunkerVars, embedderVars, hybridVars, retrievalVars, rerankVars,
               indexerVars, sessionVars>>
notEmbedder == <<chunkerVars, memoryVars, hybridVars, retrievalVars, rerankVars,
                 indexerVars, sessionVars>>
notHybrid == <<chunkerVars, memoryVars, embedderVars, retrievalVars, rerankVars,
               indexerVars, sessionVars>>
notRetrieval == <<chunkerVars, memoryVars, embedderVars, hybridVars, rerankVars,
                  indexerVars, sessionVars>>
notRerank == <<chunkerVars, memoryVars, embedderVars, hybridVars, retrievalVars,
               indexerVars, sessionVars>>
notIndexer == <<chunkerVars, memoryVars, embedderVars, hybridVars,
                retrievalVars, rerankVars, sessionVars>>
notSession == <<chunkerVars, memoryVars, embedderVars, hybridVars,
                retrievalVars, rerankVars, indexerVars>>

\* ========================================================================
\* Chunker (src/indexer/ingestion/chunker.py)
\* ========================================================================
\* a word of `tokens` tokens when it stands alone and `led` tokens when a
\* single space precedes it; punct says that it ends in a punctuation mark
\* (none of . ! ?, after which split_by_sentences cuts); gap is the
\* whitespace before it in its text
Word(tokens, led) ==
    [tokens |-> tokens, led |-> led, punct |-> FALSE, gap |-> "space"]

\* a word that ends in a punctuation mark, as "a," or ","
Punctuated(word) == [word EXCEPT !.punct = TRUE]

\* the same word after a line break
AfterNewline(word) == [word EXCEPT !.gap = "newline"]

\* the same word after a run of two or more spaces
AfterSpaces(word) == [word EXCEPT !.gap = "spaces"]

\* words whose count a leading space leaves alone, a number of one token,
\* before which the space is a token of its own, and a punctuation mark
Words ==
    {Word(t, t) : t \in 1..MaxWordTokens}
        \cup {Word(1, 2), Punctuated(Word(1, 1))}

\* the words as they occur inside a sentence: after a single space, or, for
\* the one-token word, after a line break
Occurrences == Words \cup {AfterNewline(Word(1, 1))}

\* what split_by_sentences returns is stripped: no whitespace before the
\* first word
Sentences == {s \in SeqsUpTo(Occurrences, MaxWords) \ {<<>>} : s[1].gap = "space"}

\* len(tokenizer.encode(text)), by the pieces the pattern of cl100k_base
\* cuts the text into: the first word counts as it does alone; a word after
\* a single space as it does with the space; after a run of spaces the run
\* but its last space is a piece and the word counts as it does with a
\* space; a line break is a piece of its own and the word after it counts
\* as it does alone, unless the word before the break ends in punctuation,
\* whose piece takes the line break in
count_tokens(text) ==
    SumSeq([i \in 1..Len(text) |->
               IF i = 1
               THEN text[i].tokens
               ELSE IF text[i].gap = "space"
               THEN text[i].led
               ELSE IF text[i].gap = "spaces"
               THEN 1 + text[i].led
               ELSE IF text[i - 1].punct
               THEN text[i].tokens
               ELSE 1 + text[i].tokens])

\* sentence.split(): the words without the whitespace between them; in a
\* " ".join of them each follows a single space
split(sentence) == [i \in 1..Len(sentence) |-> [sentence[i] EXCEPT !.gap = "space"]]

\* variant of PackWords: a chunk is closed as soon as the next word fills it
\* up to chunk_size
RECURSIVE PackWordsEager(_, _, _, _, _, _)
PackWordsEager(words, i, temp_chunk, temp_token_count, chunks, size) ==
    IF i > Len(words)
    THEN IF temp_chunk # <<>>
         THEN Append(chunks, [level |-> "word", units |-> temp_chunk])
         ELSE chunks
    ELSE LET word == words[i]
             word_tokens == count_tokens(<<word>>)
         IN  IF temp_token_count + word_tokens >= size
             THEN PackWordsEager(words, i + 1, <<word>>, word_tokens,
                                 IF temp_chunk # <<>>
                                 THEN Append(chunks, [level |-> "word", units |-> temp_chunk])
                                 ELSE chunks,
                                 size)
             ELSE PackWordsEager(words, i + 1, Append(temp_chunk, word),
                                 temp_token_count + word_tokens, chunks, size)

\* the long-sentence branch: the words of one sentence packed greedily
RECURSIVE PackWords(_, _, _, _, _, _)
PackWords(words, i, temp_chunk, temp_token_count, chunks, size) ==
    IF i > Len(words)
    THEN IF temp_chunk # <<>>
         THEN Append(chunks, [level |-> "word", units |-> temp_chunk])
         ELSE chunks
    ELSE LET word == words[i]
             word_tokens == count_tokens(<<word>>)
         IN  IF temp_token_count + word_tokens > size
             THEN PackWords(words, i + 1, <<word>>, word_tokens,
                            IF temp_chunk # <<>>
                            THEN Append(chunks, [level |-> "word", units |-> temp_chunk])
                            ELSE chunks,
                            size)
             ELSE PackWords(words, i + 1, Append(temp_chunk, word),
                            temp_token_count + word_tokens, chunks, size)

\* variant of OverlapSentences: a sentence that does not fit is skipped and
\* the walk goes on to older sentences
RECURSIVE OverlapSentencesSkip(_, _, _, _, _)
OverlapSentencesSkip(current_chunk, j, overlap_sentences, overlap_tokens, overlap) ==
    IF j = 0
    THEN [sentences |-> overlap_sentences, tokens |-> overlap_tokens]
    ELSE LET sent_tokens == count_tokens(current_chunk[j])
         IN  IF overlap_tokens + sent_tokens <= overlap
             THEN OverlapSentencesSkip(current_chunk, j - 1,
                                       <<current_chunk[j]>> \o overlap_sentences,
                                       overlap_tokens + sent_tokens, overlap)
             ELSE OverlapSentencesSkip(current_chunk, j - 1, overlap_sentences,
                                       overlap_tokens, overlap)

\* the overlap walk: the most recent sentences of current_chunk whose
\* cumulative token count stays <= overlap
RECURSIVE OverlapSentences(_, _, _, _, _)
OverlapSentences(current_chunk, j, overlap_sentences, overlap_tokens, overlap) ==
    IF j = 0
    THEN [sentences |-> overlap_sentences, tokens |-> overlap_tokens]
    ELSE LET sent_tokens == count_tokens(current_chunk[j])
         IN  IF overlap_tokens + sent_tokens <= overlap
             THEN OverlapSentences(current_chunk, j - 1,
                                   <<current_chunk[j]>> \o overlap_sentences,
                                   overlap_tokens + sent_tokens, overlap)
             ELSE [sentences |-> overlap_sentences, tokens |-> overlap_tokens]

SentenceChunk(current_chunk) == [level |-> "sentence", units |-> current_chunk]

\* variant of SentenceStep: the chunk is closed as soon as the sentence
\* fills it up to chunk_size
SentenceStepEager(st, sentence, size, overlap) ==
    LET sentence_tokens == count_tokens(sentence)
        closed == IF st.current_chunk # <<>>
                  THEN Append(st.chunks, SentenceChunk(st.current_chunk))
                  ELSE st.chunks
    IN  IF sentence_tokens > size
        THEN [chunks |-> PackWords(split(sentence), 1, <<>>, 0, closed, size),
              current_chunk |-> <<>>,
              current_token_count |-> 0]
        ELSE IF st.current_token_count + sentence_tokens >= size
        THEN IF overlap > 0 /\ st.current_chunk # <<>>
             THEN LET ov == OverlapSentences(st.current_chunk, Len(st.current_chunk),
                                             <<>>, 0, overlap)
                  IN  [chunks |-> closed,
                       current_chunk |-> Append(ov.sentences, sentence),
                       current_token_count |-> ov.tokens + sentence_tokens]
             ELSE [chunks |-> closed,
                   current_chunk |-> <<sentence>>,
                   current_token_count |-> sentence_tokens]
        ELSE [chunks |-> st.chunks,
              current_chunk |-> Append(st.current_chunk, sentence),
              current_token_count |-> st.current_token_count + sentence_tokens]

\* one iteration of the loop over the sentences
SentenceStep(st, sentence, size, overlap) ==
    LET sentence_tokens == count_tokens(sentence)
        closed == IF st.current_chunk # <<>>
                  THEN Append(st.chunks, SentenceChunk(st.current_chunk))
                  ELSE st.chunks
    IN  IF sentence_tokens > size
        THEN [chunks |-> PackWords(split(sentence), 1, <<>>, 0, closed, size),
              current_chunk |-> <<>>,
              current_token_count |-> 0]
        ELSE IF st.current_token_count + sentence_tokens > size
        THEN IF overlap > 0 /\ st.current_chunk # <<>>
             THEN LET ov == OverlapSentences(st.current_chunk, Len(st.current_chunk),
                                             <<>>, 0, overlap)
                  IN  [chunks |-> closed,
                       current_chunk |-> Append(ov.sentences, sentence),
                       current_token_count |-> ov.tokens + sentence_tokens]
             ELSE [chunks |-> closed,
                   current_chunk |-> <<sentence>>,
                   current_token_count |-> sentence_tokens]
        ELSE [chunks |-> st.chunks,
              current_chunk |-> Append(st.current_chunk, sentence),
              current_token_count |-> st.current_token_count + sentence_tokens]

\* variant of PackSentences: the chunk left open after the last sentence is
\* not emitted
RECURSIVE PackSentencesDropLast(_, _, _, _, _)
PackSentencesDropLast(sentences, i, st, size, overlap) ==
    IF i > Len(sentences)
    THEN st.chunks
    ELSE PackSentencesDropLast(sentences, i + 1,
                               SentenceStep(st, sentences[i], size, overlap),
                               size, overlap)

\* the loop over the sentences and the chunk left open after it
RECURSIVE PackSentences(_, _, _, _, _)
PackSentences(sentences, i, st, size, overlap) ==
    IF i > Len(sentences)
    THEN IF st.current_chunk # <<>>
         THEN Append(st.chunks, SentenceChunk(st.current_chunk))
         ELSE st.chunks
    ELSE PackSentences(sentences, i + 1,
                       SentenceStep(st, sentences[i], size, overlap),
                       size, overlap)

\* a chunk's content: " ".join of its units, sentences that keep the
\* whitespace inside them or words
ChunkContent(chunk) ==
    IF chunk.level = "sentence" THEN Flatten(chunk.units) ELSE chunk.units

\* the chunk dictionaries built from the packed chunks
ChunkDicts(chunks) ==
    [idx \in 1..Len(chunks) |->
        [content |-> ChunkContent(chunks[idx]),
         level |-> chunks[idx].level,
         units |-> chunks[idx].units,
         chunk_index |-> idx - 1,
         total_chunks |-> Len(chunks),
         token_count |-> count_tokens(ChunkContent(chunks[idx]))]]

chunk_document(sentences, size, overlap) ==
    IF sentences = <<>>
    THEN <<>>
    ELSE ChunkDicts(PackSentences(sentences, 1,
                                  [chunks |-> <<>>, current_chunk |-> <<>>,
                                   current_token_count |-> 0],
                                  size, overlap))

\* the kinds of document["content"] that hold no sentence
EmptyKinds == {"missing", "empty", "whitespace"}

\* the levels chunk_document logs: a warning when `not content`, else an
\* info record before the split and one after the chunks are built
Logged(kind) ==
    IF kind \in {"missing", "empty"} THEN <<"warning">> ELSE <<"info", "info">>

ChunkDocument ==
    /\ chunk_pc = "ready"
    /\ chunk_dicts' = chunk_document(document, chunk_size, chunk_overlap)
    /\ chunk_signals' = Logged(content_kind)
    /\ chunk_pc' = "done"
    /\ UNCHANGED <<document, content_kind, chunk_size, chunk_overlap>>
    /\ UNCHANGED notChunker

NextChunker == ChunkDocument

\* sentences of a single word, and sentences of two words with a line
\* break, a line break after punctuation, or a run of spaces between them
PackingSentences ==
    {<<w>> : w \in Words}
        \cup {<<Word(1, 1), AfterNewline(Word(1, 1))>>,
              <<Punctuated(Word(1, 1)), AfterNewline(Word(1, 1))>>,
              <<Word(1, 1), AfterSpaces(Word(1, 2))>>}

\* sentences of words of one or two tokens: every sentence of one or two
\* such words, two sentences of three words, a sentence with a line break
\* in it, one with a line break after punctuation and one that ends in a
\* number
SplitSentences ==
    (SeqsUpTo({Word(1, 1), Word(2, 2)}, 2) \ {<<>>})
        \cup {<<Word(1, 1), Word(1, 1), Word(2, 2)>>,
              <<Word(2, 2), Word(2, 2), Word(1, 1)>>,
              <<Word(1, 1), AfterNewline(Word(1, 1))>>,
              <<Punctuated(Word(2, 2)), AfterNewline(Word(1, 1))>>,
              <<Word(1, 1), Word(1, 2)>>}

\* ========================================================================
\* Conversation memory (src/backend/services/memory_service.py,
\* src/backend/database/repositories, src/backend/api/v1)
\* ========================================================================
Sessions == {"s1", "s2"}
NoSession == "none"
Requests == 1..MaxRequests

\* MemoryService.max_messages and MemoryService.max_tokens
max_messages == MaxMemoryMessages
max_tokens == MaxMemoryTokens

\* MemoryService.count_tokens
memory_count_tokens(text) == SumSeq(text)

\* Conversation.id, a uuid4: the session the row was created for and a serial
\* number that tells the rows created for one session apart
ConversationId(session_id, n) == [session_id |-> session_id, n |-> n]

\* the local `conversation` of an operation that holds no row
NoConversation == ConversationId(NoSession, 0)

\* ConversationRepository.get_by_session_id: the row with this session_id
\* (session_id is UNIQUE), or None
ConversationBySessionId(convs, session_id) ==
    IF \E c \in convs : c.session_id = session_id
    THEN CHOOSE c \in convs : c.session_id = session_id
    ELSE NoConversation

\* the rows other transactions see: those whose INSERT is committed
Visible(msgs) == SelectSeq(msgs, LAMBDA m : m.committed)

\* variant of ConversationMessages: the WHERE clause is missing
ConversationMessagesAll(msgs, conversation_id) == Visible(msgs)

\* the rows of one conversation, in created_at order
ConversationMessages(msgs, conversation_id) ==
    SelectSeq(msgs, LAMBDA m : m.committed /\ m.conversation_id = conversation_id)

\* variant of get_by_conversation: the LIMIT clause is missing
get_by_conversation_no_limit(msgs, conversation_id, limit) ==
    ConversationMessages(msgs, conversation_id)

\* MessageRepository.get_by_conversation: the `limit` most recent rows,
\* returned in chronological order
get_by_conversation(msgs, conversation_id, limit) ==
    LET rows == ConversationMessages(msgs, conversation_id)
        n == Len(rows)
        first == IF n > limit THEN n - limit + 1 ELSE 1
    IN  SubSeq(rows, first, n)

\* variant of HistoryWalk: `continue` in place of `break`, so that a turn
\* over the budget is skipped and older turns are still tried
RECURSIVE HistoryWalkContinue(_, _, _, _)
HistoryWalkContinue(rows, j, history, total_tokens) ==
    IF j = 0
    THEN history
    ELSE LET msg_dict == [role |-> rows[j].role, content |-> rows[j].content]
             msg_tokens == memory_count_tokens(rows[j].content)
         IN  IF total_tokens + msg_tokens > max_tokens
             THEN HistoryWalkContinue(rows, j - 1, history, total_tokens)
             ELSE HistoryWalkContinue(rows, j - 1, <<msg_dict>> \o history,
                                      total_tokens + msg_tokens)

\* the backward walk of get_conversation_history over reversed(messages)
RECURSIVE HistoryWalk(_, _, _, _)
HistoryWalk(rows, j, history, total_tokens) ==
    IF j = 0
    THEN history
    ELSE LET msg_dict == [role |-> rows[j].role, content |-> rows[j].content]
             msg_tokens == memory_count_tokens(rows[j].content)
         IN  IF total_tokens + msg_tokens > max_tokens
             THEN history
             ELSE HistoryWalk(rows, j - 1, <<msg_dict>> \o history,
                              total_tokens + msg_tokens)

\* MemoryService.get_conversation_history after get_or_create: the list
\* returned for the conversation row it holds
get_conversation_history(msgs, conversation_id) ==
    LET rows == get_by_conversation(msgs, conversation_id, max_messages)
    IN  HistoryWalk(rows, Len(rows), <<>>, 0)

\* the row of a turn; origin is the chat request on whose behalf it is
\* written (0: a request that returned earlier)
MessageRow(conversation_id, role, content, origin, committed) ==
    [conversation_id |-> conversation_id, origin |-> origin,
     role |-> role, content |-> content, committed |-> committed]

\* MessageRepository.create called by MemoryService.add_message with no
\* other transaction under way: the row is the newest one
add_message(msgs, conversation_id, role, content, origin) ==
    Append(msgs, MessageRow(conversation_id, role, content, origin, TRUE))

\* ConversationRepository.delete: the conversation row goes and its
\* messages with it (cascade); a row not committed yet is not seen
delete_messages(msgs, conversation_id) ==
    SelectSeq(msgs, LAMBDA m : ~(m.committed /\ m.conversation_id = conversation_id))

\* what no request has yet: the locals of chat_completion, get_conversation
\* and delete_conversation and of the MemoryService method they are in
IdleRequest ==
    [op |-> "none", pc |-> "idle", step |-> "none", session_id |-> NoSession,
     query |-> <<>>, response_text |-> <<>>, conversation_history |-> <<>>,
     conversation |-> NoConversation]

\* a request whose handler has returned: its locals are gone
Returned(outcome) == [IdleRequest EXCEPT !.pc = outcome]

\* the serial numbers of the conversation ids of a session that are in the
\* table or held in a local of a running operation
HeldSerials(session_id) ==
    {c.n : c \in {c \in conversations : c.session_id = session_id}}
        \cup {chat[r].conversation.n :
                 r \in {r \in Requests : chat[r].conversation.session_id = session_id}}

\* default=uuid.uuid4: an id that no row and no running operation holds
NewConversationId(session_id) ==
    ConversationId(session_id,
                   CHOOSE n \in 1..(MaxRequests + 2) :
                       /\ n \notin HeldSerials(session_id)
                       /\ \A k \in 1..(n - 1) : k \in HeldSerials(session_id))

\* the row request r is about to insert: created_at is DEFAULT now(), the
\* start of the transaction, so the row takes its place among the rows when
\* the transaction begins and is seen by others once it is committed
PendingRow(r, conversation) ==
    MessageRow(conversation,
               IF chat[r].pc = "user" THEN "user" ELSE "assistant",
               IF chat[r].pc = "user" THEN chat[r].query ELSE chat[r].response_text,
               r, FALSE)

IsPendingOf(m, r) == m.origin = r /\ ~m.committed

\* COMMIT of the transaction of request r
CommitPending(msgs, r) ==
    [k \in 1..Len(msgs) |->
        IF IsPendingOf(msgs[k], r) THEN [msgs[k] EXCEPT !.committed = TRUE] ELSE msgs[k]]

\* the transaction of request r ends without a commit
RollbackPending(msgs, r) == SelectSeq(msgs, LAMBDA m : ~IsPendingOf(m, r))

\* the step that follows get_or_create in the operation request r is in:
\* the SELECT of the window, or the INSERT of the turn
AfterGetOrCreate(r) == IF chat[r].pc = "history" THEN "messages" ELSE "insert"

\* chat_completion up to the first statement it sends to the database: the
\* request is received and, when it names a session, get_conversation_history
\* runs the SELECT of get_or_create
ChatReceive(r, session_id, query) ==
    /\ r = next_req + 1
    /\ chat[r].pc = "idle"
    /\ next_req' = r
    /\ LET conversation == ConversationBySessionId(conversations, session_id)
       IN  chat' = [chat EXCEPT ![r] =
                      [IdleRequest EXCEPT
                          !.op = "chat_completion",
                          !.pc = IF session_id = NoSession
                                 THEN "retrieving" ELSE "history",
                          !.step = IF session_id = NoSession THEN "none"
                                   ELSE IF conversation = NoConversation
                                   THEN "create" ELSE "messages",
                          !.session_id = session_id,
                          !.query = query,
                          !.conversation = conversation]]
    /\ UNCHANGED <<conversations, messages>>
    /\ UNCHANGED notMemory

\* chat_completion rejects a request without a user message (HTTP 400)
ChatNoUserMessage(r) ==
    /\ r = next_req + 1
    /\ chat[r].pc = "idle"
    /\ next_req' = r
    /\ chat' = [chat EXCEPT ![r] = Returned("failed")]
    /\ UNCHANGED <<conversations, messages>>
    /\ UNCHANGED notMemory

\* GET /conversations/{session_id}, or MemoryTool._run: the call of
\* get_conversation_history begins with the SELECT of get_or_create
GetConversation(r, session_id) ==
    /\ r = next_req + 1
    /\ chat[r].pc = "idle"
    /\ next_req' = r
    /\ LET conversation == ConversationBySessionId(conversations, session_id)
       IN  chat' = [chat EXCEPT ![r] =
                      [IdleRequest EXCEPT
                          !.op = "get_conversation",
                          !.pc = "history",
                          !.step = IF conversation = NoConversation
                                   THEN "create" ELSE "messages",
                          !.session_id = session_id,
                          !.conversation = conversation]]
    /\ UNCHANGED <<conversations, messages>>
    /\ UNCHANGED notMemory

\* get_or_create of an add_message of request r: the SELECT of
\* get_by_session_id, which begins the transaction; when it finds the row,
\* that transaction is the one that will insert the turn
ChatGetBySessionId(r) ==
    /\ chat[r].pc \in {"user", "assistant"}
    /\ chat[r].step = "select"
    /\ LET conversation == ConversationBySessionId(conversations, chat[r].session_id)
       IN  IF conversation = NoConversation
           THEN /\ chat' = [chat EXCEPT ![r].step = "create"]
                /\ UNCHANGED messages
           ELSE /\ chat' = [chat EXCEPT ![r].step = "insert",
                                        ![r].conversation = conversation]
                /\ messages' = Append(messages, PendingRow(r, conversation))
    /\ UNCHANGED <<conversations, next_req>>
    /\ UNCHANGED notMemory

\* get_or_create of request r found no row: create() inserts one and
\* commits; session_id is UNIQUE, so the commit raises IntegrityError when
\* a row with it is there by now (HTTP 500)
ChatCreate(r) ==
    /\ chat[r].step = "create"
    /\ IF ConversationBySessionId(conversations, chat[r].session_id) # NoConversation
       THEN /\ chat' = [chat EXCEPT ![r] = Returned("failed")]
            /\ UNCHANGED conversations
       ELSE LET conversation == NewConversationId(chat[r].session_id)
            IN  /\ conversations' = conversations \cup {conversation}
                /\ chat' = [chat EXCEPT ![r].step = "refresh",
                                        ![r].conversation = conversation]
    /\ UNCHANGED <<messages, next_req>>
    /\ UNCHANGED notMemory

\* create() of request r refreshes the row it committed: a SELECT in a new
\* transaction, which raises when the row is gone (HTTP 500); in add_message
\* that transaction is the one that will insert the turn
ChatRefresh(r) ==
    /\ chat[r].step = "refresh"
    /\ IF chat[r].conversation \notin conversations
       THEN /\ chat' = [chat EXCEPT ![r] = Returned("failed")]
            /\ UNCHANGED messages
       ELSE /\ chat' = [chat EXCEPT ![r].step = AfterGetOrCreate(r)]
            /\ messages' = IF chat[r].pc = "history"
                           THEN messages
                           ELSE Append(messages, PendingRow(r, chat[r].conversation))
    /\ UNCHANGED <<conversations, next_req>>
    /\ UNCHANGED notMemory

\* get_conversation_history of chat request r reads the window of the row
\* it holds and returns
ChatReadHistory(r) ==
    /\ chat[r].op = "chat_completion"
    /\ chat[r].pc = "history"
    /\ chat[r].step = "messages"
    /\ chat' = [chat EXCEPT ![r].pc = "retrieving",
                            ![r].step = "none",
                            ![r].conversation = NoConversation,
                            ![r].conversation_history =
                                get_conversation_history(messages, chat[r].conversation)]
    /\ UNCHANGED <<conversations, messages, next_req>>
    /\ UNCHANGED notMemory

\* get_conversation_history of the GET request r reads the window of the
\* row it holds and returns it to get_conversation
GetConversationReadHistory(r) ==
    /\ chat[r].op = "get_conversation"
    /\ chat[r].pc = "history"
    /\ chat[r].step = "messages"
    /\ chat' = [chat EXCEPT ![r].pc = "responding",
                            ![r].step = "none",
                            ![r].conversation = NoConversation,
                            ![r].conversation_history =
                                get_conversation_history(messages, chat[r].conversation)]
    /\ UNCHANGED <<conversations, messages, next_req>>
    /\ UNCHANGED notMemory

\* get_conversation returns the window as "messages"
GetConversationReturn(r) ==
    /\ chat[r].pc = "responding"
    /\ chat' = [chat EXCEPT ![r] = Returned("done")]
    /\ UNCHANGED <<conversations, messages, next_req>>
    /\ UNCHANGED notMemory

\* retrieval, reranking and generation produce the response text; with a
\* session, add_message is called for the user turn
ChatGenerate(r, response_text) ==
    /\ chat[r].pc = "retrieving"
    /\ chat' = [chat EXCEPT ![r] =
                  IF chat[r].session_id # NoSession
                  THEN [chat[r] EXCEPT !.response_text = response_text,
                                       !.pc = "user",
                                       !.step = "select"]
                  ELSE Returned("done")]
    /\ UNCHANGED <<conversations, messages, next_req>>
    /\ UNCHANGED notMemory

\* a statement of the window read, of retrieval or generation, or of the
\* deletion raises: HTTP 500, nothing is stored or deleted
ChatFail(r) ==
    /\ chat[r].pc \in {"history", "retrieving", "deleting"}
    /\ chat' = [chat EXCEPT ![r] = Returned("failed")]
    /\ UNCHANGED <<conversations, messages, next_req>>
    /\ UNCHANGED notMemory

\* MessageRepository.create of request r: INSERT and COMMIT of the turn. The
\* row refers to the conversation row the request holds; when that row is
\* gone the foreign key fails the INSERT (IntegrityError, HTTP 500)
InsertMessage(r) ==
    /\ chat[r].step = "insert"
    /\ IF chat[r].conversation \in conversations
       THEN /\ messages' = CommitPending(messages, r)
            /\ chat' = [chat EXCEPT ![r].step = "refresh_message"]
       ELSE /\ messages' = RollbackPending(messages, r)
            /\ chat' = [chat EXCEPT ![r] = Returned("failed")]
    /\ UNCHANGED <<conversations, next_req>>
    /\ UNCHANGED notMemory

\* first add_message of chat_completion: the user turn
ChatSaveUser(r) ==
    /\ chat[r].pc = "user"
    /\ InsertMessage(r)

\* second add_message of chat_completion: the assistant turn
ChatSaveAssistant(r) ==
    /\ chat[r].pc = "assistant"
    /\ InsertMessage(r)

\* MessageRepository.create of request r refreshes the row it committed: a
\* SELECT that raises when the row is gone (HTTP 500). After the user turn
\* add_message is called for the assistant turn, after the assistant turn
\* the response is returned
ChatRefreshMessage(r) ==
    /\ chat[r].pc \in {"user", "assistant"}
    /\ chat[r].step = "refresh_message"
    /\ chat' = [chat EXCEPT ![r] =
                  IF ~\E k \in 1..Len(messages) :
                         /\ messages[k].origin = r
                         /\ messages[k].committed
                         /\ messages[k].conversation_id = chat[r].conversation
                         /\ messages[k].role = chat[r].pc
                  THEN Returned("failed")
                  ELSE IF chat[r].pc = "user"
                  THEN [chat[r] EXCEPT !.pc = "assistant", !.step = "select",
                                       !.conversation = NoConversation]
                  ELSE Returned("done")]
    /\ UNCHANGED <<conversations, messages, next_req>>
    /\ UNCHANGED notMemory

\* a statement of an add_message of chat_completion fails for a reason of
\* the database's: its transaction is rolled back, HTTP 500, what was
\* committed before stays
ChatSaveFails(r) ==
    /\ chat[r].pc \in {"user", "assistant"}
    /\ chat' = [chat EXCEPT ![r] = Returned("failed")]
    /\ messages' = RollbackPending(messages, r)
    /\ UNCHANGED <<conversations, next_req>>
    /\ UNCHANGED notMemory

\* DELETE /conversations/{session_id}: clear_conversation begins with the
\* SELECT of ConversationRepository.delete; an unknown session changes
\* nothing (HTTP 404)
DeleteConversation(r, session_id) ==
    /\ r = next_req + 1
    /\ chat[r].pc = "idle"
    /\ next_req' = r
    /\ LET conversation == ConversationBySessionId(conversations, session_id)
       IN  chat' = [chat EXCEPT ![r] =
                      IF conversation = NoConversation
                      THEN Returned("failed")
                      ELSE [IdleRequest EXCEPT
                               !.op = "delete_conversation",
                               !.pc = "deleting",
                               !.step = "delete",
                               !.session_id = session_id,
                               !.conversation = conversation]]
    /\ UNCHANGED <<conversations, messages>>
    /\ UNCHANGED notMemory

\* its DELETE and COMMIT: the conversation row goes and, by the cascade of
\* the foreign key, every committed turn of it; nothing changes when the row
\* is gone already
DeleteConversationCommit(r) ==
    /\ chat[r].pc = "deleting"
    /\ conversations' = conversations \ {chat[r].conversation}
    /\ messages' = IF chat[r].conversation \in conversations
                   THEN delete_messages(messages, chat[r].conversation)
                   ELSE messages
    /\ chat' = [chat EXCEPT ![r] = Returned("done")]
    /\ UNCHANGED next_req
    /\ UNCHANGED notMemory

\* a text of one token, and one that no window has room for
ShortText == <<1>>
LongText == [i \in 1..(max_tokens + 1) |-> 1]

\* what a chat request of session "s1" that returned before any of the
\* requests followed here has left: its conversation row and its two turns
\* (origin 0)
EarlierTurns ==
    add_message(add_message(<<>>, ConversationId("s1", 1), "user", ShortText, 0),
                ConversationId("s1", 1), "assistant", ShortText, 0)

\* the requests to /chat/completions and /conversations/{session_id}, on any
\* session, with a short or a long query and response text, each running
\* one statement at a time between those of the others
NextChat ==
    \/ \E r \in Requests, s \in Sessions \cup {NoSession}, q \in {ShortText, LongText} :
           ChatReceive(r, s, q)
    \/ \E r \in Requests : ChatNoUserMessage(r)
    \/ \E r \in Requests, s \in Sessions : GetConversation(r, s)
    \/ \E r \in Requests : ChatGetBySessionId(r)
    \/ \E r \in Requests : ChatCreate(r)
    \/ \E r \in Requests : ChatRefresh(r)
    \/ \E r \in Requests : ChatReadHistory(r)
    \/ \E r \in Requests : GetConversationReadHistory(r)
    \/ \E r \in Requests : GetConversationReturn(r)
    \/ \E r \in Requests, t \in {ShortText, LongText} : ChatGenerate(r, t)
    \/ \E r \in Requests : ChatFail(r)
    \/ \E r \in Requests : ChatSaveUser(r)
    \/ \E r \in Requests : ChatSaveAssistant(r)
    \/ \E r \in Requests : ChatRefreshMessage(r)
    \/ \E r \in Requests : ChatSaveFails(r)
    \/ \E r \in Requests, s \in Sessions : DeleteConversation(r, s)
    \/ \E r \in Requests : DeleteConversationCommit(r)

\* the requests that name session "s1": chat requests with a short or a long
\* query and the short response text, GET and DELETE /conversations/s1, one
\* statement at a time
NextWindow ==
    \/ \E r \in Requests, q \in {ShortText, LongText} : ChatReceive(r, "s1", q)
    \/ \E r \in Requests : GetConversation(r, "s1")
    \/ \E r \in Requests : ChatGetBySessionId(r)
    \/ \E r \in Requests : ChatCreate(r)
    \/ \E r \in Requests : ChatRefresh(r)
    \/ \E r \in Requests : ChatReadHistory(r)
    \/ \E r \in Requests : GetConversationReadHistory(r)
    \/ \E r \in Requests : GetConversationReturn(r)
    \/ \E r \in Requests : ChatGenerate(r, ShortText)
    \/ \E r \in Requests : ChatFail(r)
    \/ \E r \in Requests : ChatSaveUser(r)
    \/ \E r \in Requests : ChatSaveAssistant(r)
    \/ \E r \in Requests : ChatRefreshMessage(r)
    \/ \E r \in Requests : ChatSaveFails(r)
    \/ \E r \in Requests : DeleteConversation(r, "s1")
    \/ \E r \in Requests : DeleteConversationCommit(r)

\* the requests that name a session, "s1" or "s2": chat requests with the
\* short query and the short response text, GET and DELETE
\* /conversations/{session_id}, one statement at a time
NextSessions ==
    \/ \E r \in Requests, s \in Sessions : ChatReceive(r, s, ShortText)
    \/ \E r \in Requests, s \in Sessions : GetConversation(r, s)
    \/ \E r \in Requests : ChatGetBySessionId(r)
    \/ \E r \in Requests : ChatCreate(r)
    \/ \E r \in Requests : ChatRefresh(r)
    \/ \E r \in Requests : ChatReadHistory(r)
    \/ \E r \in Requests : GetConversationReadHistory(r)
    \/ \E r \in Requests : GetConversationReturn(r)
    \/ \E r \in Requests : ChatGenerate(r, ShortText)
    \/ \E r \in Requests : ChatFail(r)
    \/ \E r \in Requests : ChatSaveUser(r)
    \/ \E r \in Requests : ChatSaveAssistant(r)
    \/ \E r \in Requests : ChatRefreshMessage(r)
    \/ \E r \in Requests : ChatSaveFails(r)
    \/ \E r \in Requests, s \in Sessions : DeleteConversation(r, s)
    \/ \E r \in Requests : DeleteConversationCommit(r)

\* ========================================================================
\* Embedder (src/indexer/embedding/embedder.py)
\* ========================================================================
\* the texts: empty, whitespace-only, and two texts with content
Texts == {"", " ", "a", "b"}

\* the default of embed_text's retry_count, used by embed_batch
DefaultRetryCount == 3

\* variant of IsEmptyText: `not text` alone, without the strip
IsEmptyTextNoStrip(text) == text = ""

\* `not text or not text.strip()`
IsEmptyText(text) == text = "" \/ text = " "

\* what one requests.post / raise_for_status / response.json can do
ProviderOutcomes == {"ok", "no_embedding", "timeout", "transport", "http_error"}

\* variant of IsRetried: a response without an embedding is retried too
IsRetriedAlways(outcome) ==
    outcome \in {"timeout", "transport", "http_error", "no_embedding"}

\* the outcomes handled by `except Timeout` and `except RequestException`
\* (requests.exceptions.HTTPError, raised by raise_for_status, is a
\* RequestException)
IsRetried(outcome) == outcome \in {"timeout", "transport", "http_error"}

\* the embedding the provider returns for a text
Embedding(text) == [embedding_of |-> text]
None == [none |-> TRUE]

NoResult == [status |-> "running"]
Returned_(value) == [status |-> "returned", value |-> value]
Raised(exception) == [status |-> "raised", exception |-> exception]

\* variant of BatchCatches: `except RuntimeError`
BatchCatchesRuntimeError(exception) == exception = "RuntimeError"

\* `except Exception` around the embed_text call of embed_batch
BatchCatches(exception) == exception \in {"ValueError", "RuntimeError"}

\* variant of BackoffDelay: a constant delay
BackoffDelayConstant(n) == 1

\* `2 ** attempt`, the argument of time.sleep
BackoffDelay(n) == 2 ^ n

\* embed_batch up to its first embed_text call
EmbedBatchStart ==
    /\ emb_pc = "start"
    /\ IF texts = <<>>
       THEN emb_pc' = "returned" /\ emb_idx' = emb_idx
       ELSE emb_pc' = "call" /\ emb_idx' = 1
    /\ UNCHANGED <<emb_mode, texts, retry_count, attempt, provider_calls,
                   sleeps, emb_result, embeddings, emb_log>>
    /\ UNCHANGED notEmbedder

\* embed_text up to its first provider call: the validation of the text
\* and the entry of the retry loop
EmbedTextEnter ==
    /\ emb_pc = "call"
    /\ attempt' = 0
    /\ provider_calls' = <<>>
    /\ sleeps' = <<>>
    /\ IF IsEmptyText(texts[emb_idx])
       THEN emb_result' = Raised("ValueError") /\ emb_pc' = "finished"
       ELSE IF retry_count <= 0
       THEN emb_result' = Raised("RuntimeError") /\ emb_pc' = "finished"
       ELSE emb_result' = NoResult /\ emb_pc' = "attempt"
    /\ UNCHANGED <<emb_mode, texts, retry_count, emb_idx, embeddings, emb_log>>
    /\ UNCHANGED notEmbedder

\* one pass of the retry loop: the provider call, and what embed_text does
\* with its outcome
ProviderCall(outcome) ==
    /\ emb_pc = "attempt"
    /\ provider_calls' = Append(provider_calls, outcome)
    /\ IF outcome = "ok"
       THEN /\ emb_result' = Returned_(Embedding(texts[emb_idx]))
            /\ emb_pc' = "finished"
            /\ UNCHANGED <<attempt, sleeps>>
       ELSE IF IsRetried(outcome)
       THEN IF attempt < retry_count - 1
            THEN /\ sleeps' = Append(sleeps, BackoffDelay(attempt))
                 /\ attempt' = attempt + 1
                 /\ UNCHANGED <<emb_result, emb_pc>>
            ELSE /\ emb_result' = Raised("RuntimeError")
                 /\ emb_pc' = "finished"
                 /\ UNCHANGED <<attempt, sleeps>>
       ELSE \* "No embedding in response": a RuntimeError no handler catches
            /\ emb_result' = Raised("RuntimeError")
            /\ emb_pc' = "finished"
            /\ UNCHANGED <<attempt, sleeps>>
    /\ UNCHANGED <<emb_mode, texts, retry_count, emb_idx, embeddings, emb_log>>
    /\ UNCHANGED notEmbedder

\* embed_batch after an embed_text call: the result is appended (None for a
\* caught exception) and the loop goes on
EmbedBatchCollect ==
    /\ emb_mode = "embed_batch"
    /\ emb_pc = "finished"
    /\ emb_log' = Append(emb_log, emb_result.status)
    /\ IF emb_result.status = "returned"
       THEN /\ embeddings' = Append(embeddings, emb_result.value)
            /\ emb_pc' = IF emb_idx < Len(texts) THEN "call" ELSE "returned"
            /\ emb_idx' = IF emb_idx < Len(texts) THEN emb_idx + 1 ELSE emb_idx
       ELSE IF BatchCatches(emb_result.exception)
       THEN /\ embeddings' = Append(embeddings, None)
            /\ emb_pc' = IF emb_idx < Len(texts) THEN "call" ELSE "returned"
            /\ emb_idx' = IF emb_idx < Len(texts) THEN emb_idx + 1 ELSE emb_idx
       ELSE /\ emb_pc' = "raised"
            /\ UNCHANGED <<embeddings, emb_idx>>
    /\ UNCHANGED <<emb_mode, texts, retry_count, attempt, provider_calls,
                   sleeps, emb_result>>
    /\ UNCHANGED notEmbedder

NextEmbedder ==
    \/ EmbedBatchStart
    \/ EmbedTextEnter
    \/ \E outcome \in ProviderOutcomes : ProviderCall(outcome)
    \/ EmbedBatchCollect

\* embed_text called on its own
NextEmbedText ==
    \/ EmbedTextEnter
    \/ \E outcome \in ProviderOutcomes : ProviderCall(outcome)

\* ========================================================================
\* Hybrid search (src/backend/database/repositories/vector_repo.py)
\* ========================================================================
\* Scores are fixed-point: similarities, ranks and weights in tenths,
\* combined scores in hundredths.
\* 1 - cosine distance of a chunk to the query embedding
Similarities == {8, 9}
\* ts_rank_cd of a chunk that matches the query text
Ranks == {5, 6}
\* (vector_weight, bm25_weight)
Weights == {<<6, 4>>, <<5, 5>>}
\* a nullable column value: <<>> is NULL, <<x>> is the value x
Null == <<>>
NotNull(x) == <<x>>

\* a row of chunks: matches is `to_tsvector(content) @@ plainto_tsquery(query)`
ChunkRows == [similarity : Similarities, matches : {FALSE}, rank : {0}]
             \cup [similarity : Similarities, matches : {TRUE}, rank : Ranks]

\* the orders of the indexes of rows that an ORDER BY score DESC can
\* produce: rows with equal scores come in any order
Orderings(rows) ==
    {f \in Permutations(1..Len(rows)) :
        \A i \in 1..(Len(rows) - 1) : rows[f[i]].score >= rows[f[i + 1]].score}

\* variant of OrderLimit: LIMIT n without the ORDER BY
LimitUnordered(rows, f, n) ==
    [i \in 1..(IF n < Len(rows) THEN n ELSE Len(rows)) |-> rows[i]]

\* ORDER BY ... LIMIT n, for one of these orders
OrderLimit(rows, f, n) ==
    [i \in 1..(IF n < Len(rows) THEN n ELSE Len(rows)) |-> rows[f[i]]]

Coalesce(x, default) == IF x = Null THEN default ELSE x[1]

\* the rows FROM chunks c with the score column of vector_search
VectorScored(tbl) == [i \in 1..Len(tbl) |-> [id |-> i, score |-> tbl[i].similarity]]

\* variant of Bm25Scored: no WHERE clause, every chunk is ranked
Bm25ScoredAll(tbl) ==
    [i \in 1..Len(tbl) |->
        [id |-> i, score |-> tbl[i].rank, matches |-> tbl[i].matches]]

\* the rows FROM chunks c WHERE ... @@ ... with the score column of bm25_search
Bm25Scored(tbl) ==
    SelectSeq([i \in 1..Len(tbl) |->
                  [id |-> i, score |-> tbl[i].rank, matches |-> tbl[i].matches]],
              LAMBDA r : r.matches)

\* vector_search v FULL OUTER JOIN bm25_search b ON v.id = b.id
RECURSIVE JoinLeft(_, _, _)
JoinLeft(v, b, i) ==
    IF i > Len(v)
    THEN <<>>
    ELSE LET partners == SelectSeq(b, LAMBDA y : y.id = v[i].id)
         IN  (IF partners = <<>>
              THEN <<[v_id |-> NotNull(v[i].id), v_score |-> NotNull(v[i].score),
                      b_id |-> Null, b_score |-> Null]>>
              ELSE [k \in 1..Len(partners) |->
                       [v_id |-> NotNull(v[i].id),
                        v_score |-> NotNull(v[i].score),
                        b_id |-> NotNull(partners[k].id),
                        b_score |-> NotNull(partners[k].score)]])
             \o JoinLeft(v, b, i + 1)

RECURSIVE JoinRight(_, _, _)
JoinRight(v, b, j) ==
    IF j > Len(b)
    THEN <<>>
    ELSE (IF SelectSeq(v, LAMBDA x : x.id = b[j].id) = <<>>
          THEN <<[v_id |-> Null, v_score |-> Null,
                  b_id |-> NotNull(b[j].id), b_score |-> NotNull(b[j].score)]>>
          ELSE <<>>)
         \o JoinRight(v, b, j + 1)

\* variant of FullOuterJoin: LEFT JOIN
LeftOuterJoin(v, b) == JoinLeft(v, b, 1)

FullOuterJoin(v, b) == JoinLeft(v, b, 1) \o JoinRight(v, b, 1)

\* the SELECT list over one joined row
SelectRow(j, vw, bw) ==
    [id |-> Coalesce(j.v_id, Coalesce(j.b_id, Null)),
     score |-> Coalesce(j.v_score, 0) * vw + Coalesce(j.b_score, 0) * bw,
     vector_score |-> Coalesce(j.v_score, 0),
     bm25_score |-> Coalesce(j.b_score, 0)]

Fuse(v, b, vw, bw) ==
    LET joined == FullOuterJoin(v, b)
    IN  [k \in 1..Len(joined) |-> SelectRow(joined[k], vw, bw)]

\* hybrid_search: the whole query, for one of the orders the database may
\* give to rows with equal sort keys
HybridSearch ==
    /\ hyb_pc = "ready"
    /\ \E fv \in Orderings(VectorScored(table)),
          fb \in Orderings(Bm25Scored(table)) :
         LET v == OrderLimit(VectorScored(table), fv, top_k * 2)
             b == OrderLimit(Bm25Scored(table), fb, top_k * 2)
             rows == Fuse(v, b, vector_weight, bm25_weight)
         IN  /\ vector_search' = v
             /\ bm25_search' = b
             /\ fused' = rows
             /\ \E fr \in Orderings(rows) :
                    hyb_result' = OrderLimit(rows, fr, top_k)
    /\ hyb_pc' = "done"
    /\ UNCHANGED <<table, top_k, vector_weight, bm25_weight>>
    /\ UNCHANGED notHybrid

NextHybrid == HybridSearch

\* ========================================================================
\* Retrieval (src/backend/services/retrieval_service.py,
\* src/backend/services/embedding_service.py)
\* ========================================================================
Queries == {"", " ", "q"}
\* the values of one metadata key of a chunk
MetadataValues == {"a", "b"}
\* argument filters: None, or an equality filter on that key
Filters == {Null} \cup {NotNull(x) : x \in MetadataValues}
\* settings.retrieval_top_k, scaled down
retrieval_top_k == MaxTopK
\* settings.vector_weight and settings.bm25_weight, in tenths
settings_vector_weight == 6
settings_bm25_weight == 4
\* the outcomes of the storage query
StorageOutcomes == {"ok", "error"}

\* the rows of chunks that match the query text, with their metadata
RetrievalRows ==
    [similarity : Similarities, matches : {TRUE}, rank : {5},
     metadata : MetadataValues]

NoArgs == [query |-> "", top_k |-> 0, filters |-> Null]

\* `not text or not text.strip()` of EmbeddingService.embed_text
service_is_empty(text) == text = "" \/ text = " "

\* EmbeddingService.embed_text: the requests.post calls it makes and how it
\* ends, for one outcome of the provider
service_embed_text(text, outcome) ==
    IF service_is_empty(text)
    THEN [calls |-> <<>>, result |-> Raised("ValueError")]
    ELSE [calls |-> <<[callee |-> "requests.post", outcome |-> outcome]>>,
          result |-> IF outcome = "ok"
                     THEN Returned_(Embedding(text))
                     ELSE Raised("RuntimeError")]

\* VectorRepository.hybrid_search: the lists it may return, one for each
\* order the database may give to rows with equal sort keys
hybrid_search(tbl, k, vw, bw) ==
    UNION {UNION {LET v == OrderLimit(VectorScored(tbl), fv, k * 2)
                      b == OrderLimit(Bm25Scored(tbl), fb, k * 2)
                      rows == Fuse(v, b, vw, bw)
                  IN  {OrderLimit(rows, fr, k) : fr \in Orderings(rows)}
                  : fb \in Orderings(Bm25Scored(tbl))}
           : fv \in Orderings(VectorScored(tbl))}

\* the chunk dictionaries hybrid_search builds from the rows of the result
ChunkDictionaries(rows, tbl) ==
    [i \in 1..Len(rows) |->
        [id |-> rows[i].id,
         metadata |-> tbl[rows[i].id].metadata,
         score |-> rows[i].score,
         vector_score |-> rows[i].vector_score,
         bm25_score |-> rows[i].bm25_score]]

\* the dictionary retrieve returns
RetrieveResult(chunks, query) ==
    [chunks |-> chunks, query |-> query, total_retrieved |-> Len(chunks)]

\* variant of RetrieveExcept: the failure is logged and an empty result is
\* returned
RetrieveExceptEmpty(query, exception) == Returned_(RetrieveResult(<<>>, query))

\* the except clause of retrieve
RetrieveExcept(query, exception) == Raised("RuntimeError")

\* RetrievalService.retrieve(query, top_k, filters); top_k = 0 stands for a
\* top_k of 0 or None
Retrieve(query, k, filters, embed_outcome, storage_outcome) ==
    /\ ret_pc = "ready"
    /\ LET n == IF k = 0 THEN retrieval_top_k ELSE k
           emb == service_embed_text(query, embed_outcome)
           search == [callee |-> "hybrid_search", outcome |-> storage_outcome]
       IN  /\ ret_args' = [query |-> query, top_k |-> k, filters |-> filters]
           /\ IF emb.result.status = "raised"
              THEN /\ ret_calls' = emb.calls
                   /\ ret_result' = RetrieveExcept(query, emb.result.exception)
              ELSE /\ ret_calls' = Append(emb.calls, search)
                   /\ IF storage_outcome = "error"
                      THEN ret_result' = RetrieveExcept(query, "DBAPIError")
                      ELSE \E rows \in hybrid_search(table, n, settings_vector_weight,
                                                     settings_bm25_weight) :
                               ret_result' =
                                   Returned_(RetrieveResult(
                                       ChunkDictionaries(rows, table), query))
    /\ ret_pc' = "done"
    /\ UNCHANGED notRetrieval

NextRetrieval ==
    \E query \in Queries, k \in 0..MaxTopK, filters \in Filters,
       embed_outcome \in ProviderOutcomes, storage_outcome \in StorageOutcomes :
        Retrieve(query, k, filters, embed_outcome, storage_outcome)

\* ========================================================================
\* Reranker (src/backend/tools/reranking_tool.py,
\* LLMService.score_relevance in src/backend/services/llm_service.py)
\* ========================================================================
\* Rerank scores are floats in tenths; NaN is a float of its own.
Float(v) == [nan |-> FALSE, v |-> v]
NaN == [nan |-> TRUE, v |-> 0]
\* x < y on floats: every comparison with NaN is false
FloatLt(x, y) == ~x.nan /\ ~y.nan /\ x.v < y.v
\* min(a, b) and max(a, b) of Python: b replaces a only if b < a (b > a)
PyMin(a, b) == IF FloatLt(b, a) THEN b ELSE a
PyMax(a, b) == IF FloatLt(a, b) THEN b ELSE a

\* combined scores of the candidates, in hundredths
FusedScores == {54, 68}
\* the lists of chunks that chunks_json may encode
CandidateLists ==
    UNION {{[i \in 1..n |-> [id |-> i, score |-> f[i]]] : f \in [1..n -> FusedScores]}
           : n \in 0..MaxChunks}

\* what LLMService.generate does for one candidate: it raises ("error"), or
\* it returns a text that is blank ("empty"), whose first word is no float
\* ("word"), is nan ("nan") or is a number, in tenths
LLMResponses ==
    {[kind |-> kind, value |-> 0] : kind \in {"error", "empty", "word", "nan"}}
    \cup {[kind |-> "number", value |-> v] : v \in {-2, 5, 8, 12}}

\* variant of score_relevance: the score is returned as parsed
score_relevance_unclamped(response) ==
    IF response.kind \in {"error", "empty", "word"}
    THEN Float(5)
    ELSE IF response.kind = "nan" THEN NaN ELSE Float(response.value)

\* LLMService.score_relevance, for one response of generate
score_relevance(response) ==
    IF response.kind \in {"error", "empty", "word"}
    THEN Float(5)
    ELSE LET score == IF response.kind = "nan" THEN NaN ELSE Float(response.value)
         IN  PyMax(Float(0), PyMin(Float(10), score))

\* variant of ScoredPrefix: every chunk is scored
ScoredPrefixAll(chunks, k) == chunks

\* chunks[:top_k * 2]
ScoredPrefix(chunks, k) ==
    SubSeq(chunks, 1, IF k * 2 < Len(chunks) THEN k * 2 ELSE Len(chunks))

\* the loop: every chunk of the prefix gets its rerank_score
ScoreChunks(chunks, responses) ==
    [i \in 1..Len(chunks) |->
        [id |-> chunks[i].id, score |-> chunks[i].score,
         rerank_score |-> score_relevance(responses[i])]]

\* variant of InsertDescending: a chunk is put before the chunks of equal
\* rerank_score that came before it
RECURSIVE InsertDescendingBeforeTies(_, _)
InsertDescendingBeforeTies(sorted, x) ==
    IF sorted = <<>>
    THEN <<x>>
    ELSE IF ~FloatLt(x.rerank_score, Head(sorted).rerank_score)
         THEN <<x>> \o sorted
         ELSE <<Head(sorted)>> \o InsertDescendingBeforeTies(Tail(sorted), x)

\* list.sort(key = rerank_score, reverse = True): a stable sort
RECURSIVE InsertDescending(_, _)
InsertDescending(sorted, x) ==
    IF sorted = <<>>
    THEN <<x>>
    ELSE IF FloatLt(Head(sorted).rerank_score, x.rerank_score)
         THEN <<x>> \o sorted
         ELSE <<Head(sorted)>> \o InsertDescending(Tail(sorted), x)

RECURSIVE SortDescending(_, _)
SortDescending(list, i) ==
    IF i = 0 THEN <<>> ELSE InsertDescending(SortDescending(list, i - 1), list[i])

\* variant of FinalChunks: no slice
FinalChunksAll(reranked, k) == reranked

\* reranked[:top_k]
FinalChunks(reranked, k) ==
    SubSeq(reranked, 1, IF k < Len(reranked) THEN k ELSE Len(reranked))

NoOutput == [success |-> FALSE, error |-> "none"]

\* RerankingTool._run(query, chunks_json, top_k) on a text that is no JSON
RerankMalformed ==
    /\ rr_pc = "ready"
    /\ rr_chunks_json = Null
    /\ rr_responses' = <<>>
    /\ rr_reranked' = <<>>
    /\ rr_output' = [success |-> FALSE, error |-> "JSONDecodeError"]
    /\ rr_pc' = "done"
    /\ UNCHANGED <<rr_chunks_json, rr_top_k>>
    /\ UNCHANGED notRerank

\* RerankingTool._run(query, chunks_json, top_k) on a list of chunks, for
\* one answer of the scorer to every chunk of the prefix
Rerank ==
    /\ rr_pc = "ready"
    /\ rr_chunks_json # Null
    /\ LET chunks == ScoredPrefix(rr_chunks_json[1], rr_top_k)
       IN  \E responses \in [1..Len(chunks) -> LLMResponses] :
               LET scored == ScoreChunks(chunks, responses)
                   reranked == SortDescending(scored, Len(scored))
                   final_chunks == FinalChunks(reranked, rr_top_k)
               IN  /\ rr_responses' = responses
                   /\ rr_reranked' = reranked
                   /\ rr_output' = [success |-> TRUE,
                                    reranked_count |-> Len(final_chunks),
                                    chunks |-> final_chunks]
    /\ rr_pc' = "done"
    /\ UNCHANGED <<rr_chunks_json, rr_top_k>>
    /\ UNCHANGED notRerank

NextRerank ==
    \/ RerankMalformed
    \/ Rerank

\* ========================================================================
\* Indexing pipeline (src/indexer/main.py,
\* src/indexer/embedding/batch_processor.py,
\* src/indexer/storage/vector_store.py)
\* ========================================================================
\* the chunk dictionaries of a document of n chunks, as chunk_document
\* returns them: no key "embedding"
IndexChunks(n) == [i \in 1..n |-> [chunk_index |-> i - 1, content |-> i]]

\* chunks[i:i + batch_size] for i in range(0, len(chunks), batch_size)
Batches(chunks, batch_size) ==
    [b \in 1..((Len(chunks) + batch_size - 1) \div batch_size) |->
        SubSeq(chunks, (b - 1) * batch_size + 1,
               IF b * batch_size < Len(chunks) THEN b * batch_size ELSE Len(chunks))]

\* what embed_batch does for the batches: it raises for the batches in
\* raising, and returns for the others one entry per text, None for the
\* chunks not in present
EmbedBatchOutcome(batch, present, raising, b) ==
    IF b \in raising
    THEN Raised("Exception")
    ELSE Returned_([i \in 1..Len(batch) |->
                       IF batch[i].content \in present
                       THEN Embedding(batch[i].content)
                       ELSE None])

\* chunk["embedding"] = embedding: the key is written into the dictionary,
\* which the batch and the caller's list share
WithEmbedding(chunk, embedding) ==
    [k \in DOMAIN chunk \cup {"embedding"} |->
        IF k = "embedding" THEN embedding ELSE chunk[k]]

\* variant of AddEmbeddings: a chunk whose embedding is None is counted as
\* failed and appended all the same
RECURSIVE AddEmbeddingsKeepFailed(_, _, _, _, _)
AddEmbeddingsKeepFailed(batch, batch_embeddings, first, i, acc) ==
    IF i > Len(batch) \/ i > Len(batch_embeddings)
    THEN acc
    ELSE IF batch_embeddings[i] # None
         THEN LET chunk == WithEmbedding(batch[i], batch_embeddings[i])
              IN  AddEmbeddingsKeepFailed(batch, batch_embeddings, first, i + 1,
                      [processed_chunks |-> Append(acc.processed_chunks, chunk),
                       failed_count |-> acc.failed_count,
                       chunks |-> [acc.chunks EXCEPT ![first + i - 1] = chunk]])
         ELSE AddEmbeddingsKeepFailed(batch, batch_embeddings, first, i + 1,
                  [processed_chunks |-> Append(acc.processed_chunks, batch[i]),
                   failed_count |-> acc.failed_count + 1,
                   chunks |-> acc.chunks])

\* the loop over zip(batch, embeddings); batch[i] is the dictionary at
\* position first + i - 1 of the caller's list, acc.chunks is that list
RECURSIVE AddEmbeddings(_, _, _, _, _)
AddEmbeddings(batch, batch_embeddings, first, i, acc) ==
    IF i > Len(batch) \/ i > Len(batch_embeddings)
    THEN acc
    ELSE IF batch_embeddings[i] # None
         THEN LET chunk == WithEmbedding(batch[i], batch_embeddings[i])
              IN  AddEmbeddings(batch, batch_embeddings, first, i + 1,
                      [processed_chunks |-> Append(acc.processed_chunks, chunk),
                       failed_count |-> acc.failed_count,
                       chunks |-> [acc.chunks EXCEPT ![first + i - 1] = chunk]])
         ELSE AddEmbeddings(batch, batch_embeddings, first, i + 1,
                  [processed_chunks |-> acc.processed_chunks,
                   failed_count |-> acc.failed_count + 1,
                   chunks |-> acc.chunks])

\* the loop over the batches of batch_size chunks
RECURSIVE ProcessBatches(_, _, _, _, _, _)
ProcessBatches(batches, batch_size, b, present, raising, acc) ==
    IF b > Len(batches)
    THEN acc
    ELSE LET outcome == EmbedBatchOutcome(batches[b], present, raising, b)
         IN  ProcessBatches(batches, batch_size, b + 1, present, raising,
                 IF outcome.status = "raised"
                 THEN [processed_chunks |-> acc.processed_chunks,
                       failed_count |-> acc.failed_count + Len(batches[b]),
                       chunks |-> acc.chunks]
                 ELSE AddEmbeddings(batches[b], outcome.value,
                                    (b - 1) * batch_size + 1, 1, acc))

\* BatchProcessor.process_chunks: the list returned, the number of failed
\* chunks it logs, and the caller's list after the call
process_chunks(chunks, batch_size, present, raising) ==
    IF chunks = <<>>
    THEN [processed_chunks |-> <<>>, failed_count |-> 0, chunks |-> chunks]
    ELSE ProcessBatches(Batches(chunks, batch_size), batch_size, 1, present, raising,
                        [processed_chunks |-> <<>>, failed_count |-> 0,
                         chunks |-> chunks])

\* the loop of store_document_with_chunks: a chunk with no key "embedding"
\* is skipped, the others are passed to store_chunk, which inserts the row
\* unless the insert fails
RECURSIVE StoreChunks(_, _, _, _)
StoreChunks(chunks, i, failing, acc) ==
    IF i > Len(chunks)
    THEN acc
    ELSE LET chunk == chunks[i]
         IN  IF "embedding" \notin DOMAIN chunk
             THEN StoreChunks(chunks, i + 1, failing,
                      [acc EXCEPT !.failed_chunks = @ + 1])
             ELSE LET call == [content |-> chunk.content,
                               embedding |-> chunk.embedding,
                               chunk_index |-> chunk.chunk_index]
                  IN  IF i \in failing \/ chunk.embedding = None
                      THEN StoreChunks(chunks, i + 1, failing,
                               [acc EXCEPT !.calls = Append(@, call),
                                           !.failed_chunks = @ + 1])
                      ELSE StoreChunks(chunks, i + 1, failing,
                               [acc EXCEPT !.calls = Append(@, call),
                                           !.rows = Append(@, call),
                                           !.stored_chunks = @ + 1])

\* main.py: chunk_document returned no chunk, the document counts as failed
IndexNoChunks ==
    /\ ix_pc = "ready"
    /\ ix_chunks = <<>>
    /\ ix_pc' = "done"
    /\ UNCHANGED <<ix_chunks, ix_batch_size, ix_processed, ix_failed,
                   ix_store_calls, ix_stored, ix_result>>
    /\ UNCHANGED notIndexer

\* main.py: batch_processor.process_chunks(chunks); the dictionaries of
\* chunks that got an embedding now hold it
ProcessChunks ==
    /\ ix_pc = "ready"
    /\ ix_chunks # <<>>
    /\ \E present \in SUBSET (1..Len(ix_chunks)) :
       \E raising \in SUBSET (1..Len(Batches(ix_chunks, ix_batch_size))) :
           LET out == process_chunks(ix_chunks, ix_batch_size, present, raising)
           IN  /\ ix_processed' = out.processed_chunks
               /\ ix_failed' = out.failed_count
               /\ ix_chunks' = out.chunks
    /\ ix_pc' = "processed"
    /\ UNCHANGED <<ix_batch_size, ix_store_calls, ix_stored, ix_result>>
    /\ UNCHANGED notIndexer

\* main.py: no chunk came back with an embedding, the document counts as
\* failed and nothing is stored
IndexNoEmbeddings ==
    /\ ix_pc = "processed"
    /\ ix_processed = <<>>
    /\ ix_pc' = "done"
    /\ UNCHANGED <<ix_chunks, ix_batch_size, ix_processed, ix_failed,
                   ix_store_calls, ix_stored, ix_result>>
    /\ UNCHANGED notIndexer

\* main.py: vector_store.store_document_with_chunks(doc, chunks_with_embeddings)
\* when store_document raises
StoreDocumentFails ==
    /\ ix_pc = "processed"
    /\ ix_processed # <<>>
    /\ ix_result' = Raised("Exception")
    /\ ix_pc' = "done"
    /\ UNCHANGED <<ix_chunks, ix_batch_size, ix_processed, ix_failed,
                   ix_store_calls, ix_stored>>
    /\ UNCHANGED notIndexer

\* main.py: vector_store.store_document_with_chunks(doc, chunks_with_embeddings),
\* the inserts of the chunks in failing raising
StoreDocumentWithChunks ==
    /\ ix_pc = "processed"
    /\ ix_processed # <<>>
    /\ \E failing \in SUBSET (1..Len(ix_processed)) :
           LET out == StoreChunks(ix_processed, 1, failing,
                                  [calls |-> <<>>, rows |-> <<>>,
                                   stored_chunks |-> 0, failed_chunks |-> 0])
           IN  /\ ix_store_calls' = out.calls
               /\ ix_stored' = out.rows
               /\ ix_result' = Returned_([total_chunks |-> Len(ix_processed),
                                          stored_chunks |-> out.stored_chunks,
                                          failed_chunks |-> out.failed_chunks])
    /\ ix_pc' = "done"
    /\ UNCHANGED <<ix_chunks, ix_batch_size, ix_processed, ix_failed>>
    /\ UNCHANGED notIndexer

\* the chunk dictionaries a caller of the class may hand to
\* process_single_chunk: with any text as content, or with no key "content"
SingleChunks ==
    {[chunk_index |-> 0, content |-> t] : t \in Texts} \cup {[chunk_index |-> 0]}

\* BatchProcessor.process_single_chunk: ValueError for a chunk without
\* content; embed_text raises for a whitespace-only text and when the
\* provider fails, which comes out as RuntimeError; otherwise the embedding
\* is written into the caller's dictionary, which is returned
process_single_chunk(chunk, embeds) ==
    IF "content" \notin DOMAIN chunk \/ chunk.content = ""
    THEN [result |-> Raised("ValueError"), chunk |-> chunk]
    ELSE IF IsEmptyText(chunk.content) \/ ~embeds
    THEN [result |-> Raised("RuntimeError"), chunk |-> chunk]
    ELSE LET out == WithEmbedding(chunk, Embedding(chunk.content))
         IN  [result |-> Returned_(out), chunk |-> out]

\* a caller of the class calls process_single_chunk on one of its chunk
\* dictionaries (main.py never does)
ProcessSingleChunk(i, embeds) ==
    /\ ix_pc = "ready"
    /\ i \in 1..Len(ix_chunks)
    /\ LET out == process_single_chunk(ix_chunks[i], embeds)
       IN  /\ ix_chunks' = [ix_chunks EXCEPT ![i] = out.chunk]
           /\ ix_result' = out.result
    /\ UNCHANGED <<ix_pc, ix_batch_size, ix_processed, ix_failed,
                   ix_store_calls, ix_stored>>
    /\ UNCHANGED notIndexer

NextSingleChunk ==
    \E i \in 1..MaxIndexChunks, embeds \in BOOLEAN : ProcessSingleChunk(i, embeds)

NextIndexer ==
    \/ IndexNoChunks
    \/ ProcessChunks
    \/ IndexNoEmbeddings
    \/ StoreDocumentFails
    \/ StoreDocumentWithChunks

\* ========================================================================
\* Concurrent operations on sessions
\* (src/backend/database/repositories/conversation_repo.py,
\* src/backend/services/memory_service.py, src/backend/database/models.py)
\* ========================================================================
\* the operations of MemoryService: each starts with get_by_session_id, in
\* get_or_create or in ConversationRepository.delete
SessionOperations == {"get_conversation_history", "add_message", "clear_conversation"}

\* a request that has started no operation on a session
IdleOperation ==
    [pc |-> "idle", op |-> "none", session_id |-> NoSession,
     conversation |-> NoConversation, result |-> NoResult]

\* get_by_session_id: the row with this session_id, or None
get_by_session_id(rows, session_id) ==
    IF \E i \in 1..Len(rows) : rows[i].session_id = session_id
    THEN rows[CHOOSE i \in 1..Len(rows) : rows[i].session_id = session_id]
    ELSE NoConversation

\* the serial numbers of the conversation ids of a session that are in the
\* table or held by a running operation
OperationSerials(session_id) ==
    {conv_table[i].n :
        i \in {i \in 1..Len(conv_table) : conv_table[i].session_id = session_id}}
        \cup {goc[r].conversation.n :
                 r \in {r \in Requests : goc[r].conversation.session_id = session_id}}

\* the operation of request r ends
Ended(r, result) == [goc EXCEPT ![r].pc = "done", ![r].result = result]

\* the operation of request r starts: it runs get_by_session_id in a
\* database session of its own
GetBySessionId(r, op, session_id) ==
    /\ goc[r].pc = "idle"
    /\ goc' = [goc EXCEPT ![r] = [pc |-> "selected", op |-> op,
                                  session_id |-> session_id,
                                  conversation |-> get_by_session_id(conv_table, session_id),
                                  result |-> NoResult]]
    /\ UNCHANGED <<conv_table, goc_messages>>
    /\ UNCHANGED notSession

\* get_or_create: `if not conversation` is false, the row read is returned
GetOrCreateFound(r) ==
    /\ goc[r].pc = "selected"
    /\ goc[r].op # "clear_conversation"
    /\ goc[r].conversation # NoConversation
    /\ goc' = [goc EXCEPT ![r].pc = "has_conversation"]
    /\ UNCHANGED <<conv_table, goc_messages>>
    /\ UNCHANGED notSession

\* get_or_create: no row was read and create() inserts one and commits;
\* session_id is UNIQUE, so the commit raises IntegrityError when a row
\* with it is there by now, and the operation ends with that exception
Create(r) ==
    /\ goc[r].pc = "selected"
    /\ goc[r].op # "clear_conversation"
    /\ goc[r].conversation = NoConversation
    /\ IF get_by_session_id(conv_table, goc[r].session_id) # NoConversation
       THEN /\ goc' = Ended(r, Raised("IntegrityError"))
            /\ UNCHANGED conv_table
       ELSE LET conversation ==
                    ConversationId(goc[r].session_id,
                                   CHOOSE n \in 1..(MaxRequests + 1) :
                                       /\ n \notin OperationSerials(goc[r].session_id)
                                       /\ \A k \in 1..(n - 1) :
                                              k \in OperationSerials(goc[r].session_id))
            IN  /\ conv_table' = Append(conv_table, conversation)
                /\ goc' = [goc EXCEPT ![r].pc = "created",
                                      ![r].conversation = conversation]
    /\ UNCHANGED goc_messages
    /\ UNCHANGED notSession

\* create() refreshes the row it committed: a SELECT in a new transaction,
\* which raises InvalidRequestError when the row is gone
RefreshConversation(r) ==
    /\ goc[r].pc = "created"
    /\ goc' = IF \E i \in 1..Len(conv_table) : conv_table[i] = goc[r].conversation
              THEN [goc EXCEPT ![r].pc = "has_conversation"]
              ELSE Ended(r, Raised("InvalidRequestError"))
    /\ UNCHANGED <<conv_table, goc_messages>>
    /\ UNCHANGED notSession

\* get_conversation_history: the SELECT of get_by_conversation; the window
\* is returned (empty when the row it holds is gone)
GetByConversation(r) ==
    /\ goc[r].pc = "has_conversation"
    /\ goc[r].op = "get_conversation_history"
    /\ goc' = Ended(r, Returned_(goc[r].op))
    /\ UNCHANGED <<conv_table, goc_messages>>
    /\ UNCHANGED notSession

\* add_message: MessageRepository.create inserts the turn and commits; the
\* foreign key raises IntegrityError when the conversation row is gone
CreateMessage(r) ==
    /\ goc[r].pc = "has_conversation"
    /\ goc[r].op = "add_message"
    /\ IF \E i \in 1..Len(conv_table) : conv_table[i] = goc[r].conversation
       THEN /\ goc_messages' = Append(goc_messages,
                                      [conversation_id |-> goc[r].conversation,
                                       session_id |-> goc[r].session_id,
                                       origin |-> r])
            /\ goc' = [goc EXCEPT ![r].pc = "message_created"]
       ELSE /\ goc' = Ended(r, Raised("IntegrityError"))
            /\ UNCHANGED goc_messages
    /\ UNCHANGED conv_table
    /\ UNCHANGED notSession

\* MessageRepository.create refreshes the turn it committed, which raises
\* InvalidRequestError when the turn is gone with its conversation
RefreshMessage(r) ==
    /\ goc[r].pc = "message_created"
    /\ goc' = IF \E i \in 1..Len(goc_messages) : goc_messages[i].origin = r
              THEN Ended(r, Returned_(goc[r].op))
              ELSE Ended(r, Raised("InvalidRequestError"))
    /\ UNCHANGED <<conv_table, goc_messages>>
    /\ UNCHANGED notSession

\* clear_conversation, ConversationRepository.delete after its SELECT: with
\* no row it returns False; with a row, DELETE and COMMIT remove the row and,
\* by the cascade, its turns (nothing when the row is gone already) and it
\* returns True
Delete(r) ==
    /\ goc[r].pc = "selected"
    /\ goc[r].op = "clear_conversation"
    /\ IF goc[r].conversation = NoConversation
       THEN /\ goc' = Ended(r, Returned_("not_found"))
            /\ UNCHANGED <<conv_table, goc_messages>>
       ELSE /\ conv_table' = SelectSeq(conv_table, LAMBDA c : c # goc[r].conversation)
            /\ goc_messages' = SelectSeq(goc_messages,
                                         LAMBDA m : m.conversation_id # goc[r].conversation)
            /\ goc' = Ended(r, Returned_(goc[r].op))
    /\ UNCHANGED notSession

NextSession ==
    \/ \E r \in Requests, op \in SessionOperations, session_id \in Sessions :
           GetBySessionId(r, op, session_id)
    \/ \E r \in Requests : GetOrCreateFound(r)
    \/ \E r \in Requests : Create(r)
    \/ \E r \in Requests : RefreshConversation(r)
    \/ \E r \in Requests : GetByConversation(r)
    \/ \E r \in Requests : CreateMessage(r)
    \/ \E r \in Requests : RefreshMessage(r)
    \/ \E r \in Requests : Delete(r)

\* ========================================================================
\* Specifications: one per component; its initial state leaves the other
\* components unused
\* ========================================================================
InitChunker ==
    /\ document \in SeqsUpTo(Sentences, MaxSentences)
    /\ chunk_size \in 1..MaxChunkSize
    /\ chunk_overlap \in 0..(chunk_size - 1)
    /\ chunk_dicts = <<>>
    /\ chunk_pc = "ready"
    /\ content_kind \in IF document = <<>> THEN EmptyKinds ELSE {"text"}
    /\ chunk_signals = <<>>
    \* the conversation memory is empty
    /\ conversations = {}
    /\ messages = <<>>
    /\ next_req = 0
    /\ chat = [r \in Requests |-> IdleRequest]
    \* the embedder is not used
    /\ emb_mode = "idle"
    /\ texts = <<>>
    /\ retry_count = 0
    /\ emb_pc = "idle"
    /\ emb_idx = 0
    /\ attempt = 0
    /\ provider_calls = <<>>
    /\ sleeps = <<>>
    /\ emb_result = NoResult
    /\ embeddings = <<>>
    /\ emb_log = <<>>
    \* no hybrid search is made
    /\ table = <<>>
    /\ top_k = 0
    /\ vector_weight = 0
    /\ bm25_weight = 0
    /\ hyb_pc = "idle"
    /\ vector_search = <<>>
    /\ bm25_search = <<>>
    /\ fused = <<>>
    /\ hyb_result = <<>>
    \* no retrieval is made
    /\ ret_pc = "idle"
    /\ ret_args = NoArgs
    /\ ret_calls = <<>>
    /\ ret_result = NoResult
    \* the reranker is not used
    /\ rr_pc = "idle"
    /\ rr_chunks_json = Null
    /\ rr_top_k = 0
    /\ rr_responses = <<>>
    /\ rr_reranked = <<>>
    /\ rr_output = NoOutput
    \* no document is indexed
    /\ ix_pc = "idle"
    /\ ix_chunks = <<>>
    /\ ix_batch_size = 1
    /\ ix_processed = <<>>
    /\ ix_failed = 0
    /\ ix_store_calls = <<>>
    /\ ix_stored = <<>>
    /\ ix_result = NoResult
    \* no concurrent operation is made
    /\ conv_table = <<>>
    /\ goc = [r \in Requests |-> IdleOperation]
    /\ goc_messages = <<>>

\* no request is running; the tables are empty, or hold what an earlier chat
\* request of session "s1" has left
InitMemory ==
    /\ conversations \in {{}, {ConversationId("s1", 1)}}
    /\ messages = IF conversations = {} THEN <<>> ELSE EarlierTurns
    /\ next_req = 0
    /\ chat = [r \in Requests |-> IdleRequest]
    \* the chunker is not used
    /\ document = <<>>
    /\ chunk_size = 1
    /\ chunk_overlap = 0
    /\ chunk_dicts = <<>>
    /\ chunk_pc = "idle"
    /\ content_kind = "missing"
    /\ chunk_signals = <<>>
    \* the embedder is not used
    /\ emb_mode = "idle"
    /\ texts = <<>>
    /\ retry_count = 0
    /\ emb_pc = "idle"
    /\ emb_idx = 0
    /\ attempt = 0
    /\ provider_calls = <<>>
    /\ sleeps = <<>>
    /\ emb_result = NoResult
    /\ embeddings = <<>>
    /\ emb_log = <<>>
    \* no hybrid search is made
    /\ table = <<>>
    /\ top_k = 0
    /\ vector_weight = 0
    /\ bm25_weight = 0
    /\ hyb_pc = "idle"
    /\ vector_search = <<>>
    /\ bm25_search = <<>>
    /\ fused = <<>>
    /\ hyb_result = <<>>
    \* no retrieval is made
    /\ ret_pc = "idle"
    /\ ret_args = NoArgs
    /\ ret_calls = <<>>
    /\ ret_result = NoResult
    \* the reranker is not used
    /\ rr_pc = "idle"
    /\ rr_chunks_json = Null
    /\ rr_top_k = 0
    /\ rr_responses = <<>>
    /\ rr_reranked = <<>>
    /\ rr_output = NoOutput
    \* no document is indexed
    /\ ix_pc = "idle"
    /\ ix_chunks = <<>>
    /\ ix_batch_size = 1
    /\ ix_processed = <<>>
    /\ ix_failed = 0
    /\ ix_store_calls = <<>>
    /\ ix_stored = <<>>
    /\ ix_result = NoResult
    \* no concurrent operation is made
    /\ conv_table = <<>>
    /\ goc = [r \in Requests |-> IdleOperation]
    /\ goc_messages = <<>>

InitEmbedder ==
    /\ emb_mode \in {"embed_text", "embed_batch"}
    /\ IF emb_mode = "embed_text"
       THEN /\ texts \in [1..1 -> Texts]
            /\ retry_count \in 0..MaxRetryCount
            /\ emb_pc = "call"
            /\ emb_idx = 1
       ELSE /\ texts \in SeqsUpTo(Texts, MaxBatch)
            /\ retry_count = DefaultRetryCount
            /\ emb_pc = "start"
            /\ emb_idx = 0
    /\ attempt = 0
    /\ provider_calls = <<>>
    /\ sleeps = <<>>
    /\ emb_result = NoResult
    /\ embeddings = <<>>
    /\ emb_log = <<>>
    \* the chunker is not used
    /\ document = <<>>
    /\ chunk_size = 1
    /\ chunk_overlap = 0
    /\ chunk_dicts = <<>>
    /\ chunk_pc = "idle"
    /\ content_kind = "missing"
    /\ chunk_signals = <<>>
    \* the conversation memory is empty
    /\ conversations = {}
    /\ messages = <<>>
    /\ next_req = 0
    /\ chat = [r \in Requests |-> IdleRequest]
    \* no hybrid search is made
    /\ table = <<>>
    /\ top_k = 0
    /\ vector_weight = 0
    /\ bm25_weight = 0
    /\ hyb_pc = "idle"
    /\ vector_search = <<>>
    /\ bm25_search = <<>>
    /\ fused = <<>>
    /\ hyb_result = <<>>
    \* no retrieval is made
    /\ ret_pc = "idle"
    /\ ret_args = NoArgs
    /\ ret_calls = <<>>
    /\ ret_result = NoResult
    \* the reranker is not used
    /\ rr_pc = "idle"
    /\ rr_chunks_json = Null
    /\ rr_top_k = 0
    /\ rr_responses = <<>>
    /\ rr_reranked = <<>>
    /\ rr_output = NoOutput
    \* no document is indexed
    /\ ix_pc = "idle"
    /\ ix_chunks = <<>>
    /\ ix_batch_size = 1
    /\ ix_processed = <<>>
    /\ ix_failed = 0
    /\ ix_store_calls = <<>>
    /\ ix_stored = <<>>
    /\ ix_result = NoResult
    \* no concurrent operation is made
    /\ conv_table = <<>>
    /\ goc = [r \in Requests |-> IdleOperation]
    /\ goc_messages = <<>>

InitHybrid ==
    /\ table \in SeqsUpTo(ChunkRows, MaxChunks)
    /\ top_k \in 0..MaxTopK
    /\ \E w \in Weights : vector_weight = w[1] /\ bm25_weight = w[2]
    /\ hyb_pc = "ready"
    /\ vector_search = <<>>
    /\ bm25_search = <<>>
    /\ fused = <<>>
    /\ hyb_result = <<>>
    \* the chunker is not used
    /\ document = <<>>
    /\ chunk_size = 1
    /\ chunk_overlap = 0
    /\ chunk_dicts = <<>>
    /\ chunk_pc = "idle"
    /\ content_kind = "missing"
    /\ chunk_signals = <<>>
    \* the conversation memory is empty
    /\ conversations = {}
    /\ messages = <<>>
    /\ next_req = 0
    /\ chat = [r \in Requests |-> IdleRequest]
    \* the embedder is not used
    /\ emb_mode = "idle"
    /\ texts = <<>>
    /\ retry_count = 0
    /\ emb_pc = "idle"
    /\ emb_idx = 0
    /\ attempt = 0
    /\ provider_calls = <<>>
    /\ sleeps = <<>>
    /\ emb_result = NoResult
    /\ embeddings = <<>>
    /\ emb_log = <<>>
    \* no retrieval is made
    /\ ret_pc = "idle"
    /\ ret_args = NoArgs
    /\ ret_calls = <<>>
    /\ ret_result = NoResult
    \* the reranker is not used
    /\ rr_pc = "idle"
    /\ rr_chunks_json = Null
    /\ rr_top_k = 0
    /\ rr_responses = <<>>
    /\ rr_reranked = <<>>
    /\ rr_output = NoOutput
    \* no document is indexed
    /\ ix_pc = "idle"
    /\ ix_chunks = <<>>
    /\ ix_batch_size = 1
    /\ ix_processed = <<>>
    /\ ix_failed = 0
    /\ ix_store_calls = <<>>
    /\ ix_stored = <<>>
    /\ ix_result = NoResult
    \* no concurrent operation is made
    /\ conv_table = <<>>
    /\ goc = [r \in Requests |-> IdleOperation]
    /\ goc_messages = <<>>

InitRetrieval ==
    /\ ret_pc = "ready"
    /\ ret_args = NoArgs
    /\ ret_calls = <<>>
    /\ ret_result = NoResult
    /\ table \in SeqsUpTo(RetrievalRows, MaxRetrievalChunks)
    \* hybrid_search is called by retrieve only
    /\ top_k = 0
    /\ vector_weight = 0
    /\ bm25_weight = 0
    /\ hyb_pc = "idle"
    /\ vector_search = <<>>
    /\ bm25_search = <<>>
    /\ fused = <<>>
    /\ hyb_result = <<>>
    \* the chunker is not used
    /\ document = <<>>
    /\ chunk_size = 1
    /\ chunk_overlap = 0
    /\ chunk_dicts = <<>>
    /\ chunk_pc = "idle"
    /\ content_kind = "missing"
    /\ chunk_signals = <<>>
    \* the conversation memory is empty
    /\ conversations = {}
    /\ messages = <<>>
    /\ next_req = 0
    /\ chat = [r \in Requests |-> IdleRequest]
    \* the embedder is not used
    /\ emb_mode = "idle"
    /\ texts = <<>>
    /\ retry_count = 0
    /\ emb_pc = "idle"
    /\ emb_idx = 0
    /\ attempt = 0
    /\ provider_calls = <<>>
    /\ sleeps = <<>>
    /\ emb_result = NoResult
    /\ embeddings = <<>>
    /\ emb_log = <<>>
    \* the reranker is not used
    /\ rr_pc = "idle"
    /\ rr_chunks_json = Null
    /\ rr_top_k = 0
    /\ rr_responses = <<>>
    /\ rr_reranked = <<>>
    /\ rr_output = NoOutput
    \* no document is indexed
    /\ ix_pc = "idle"
    /\ ix_chunks = <<>>
    /\ ix_batch_size = 1
    /\ ix_processed = <<>>
    /\ ix_failed = 0
    /\ ix_store_calls = <<>>
    /\ ix_stored = <<>>
    /\ ix_result = NoResult
    \* no concurrent operation is made
    /\ conv_table = <<>>
    /\ goc = [r \in Requests |-> IdleOperation]
    /\ goc_messages = <<>>

InitRerank ==
    /\ rr_pc = "ready"
    /\ rr_chunks_json \in {Null} \cup {NotNull(chunks) : chunks \in CandidateLists}
    /\ rr_top_k \in 0..MaxTopK
    /\ rr_responses = <<>>
    /\ rr_reranked = <<>>
    /\ rr_output = NoOutput
    \* the chunker is not used
    /\ document = <<>>
    /\ chunk_size = 1
    /\ chunk_overlap = 0
    /\ chunk_dicts = <<>>
    /\ chunk_pc = "idle"
    /\ content_kind = "missing"
    /\ chunk_signals = <<>>
    \* the conversation memory is empty
    /\ conversations = {}
    /\ messages = <<>>
    /\ next_req = 0
    /\ chat = [r \in Requests |-> IdleRequest]
    \* the embedder is not used
    /\ emb_mode = "idle"
    /\ texts = <<>>
    /\ retry_count = 0
    /\ emb_pc = "idle"
    /\ emb_idx = 0
    /\ attempt = 0
    /\ provider_calls = <<>>
    /\ sleeps = <<>>
    /\ emb_result = NoResult
    /\ embeddings = <<>>
    /\ emb_log = <<>>
    \* no hybrid search is made
    /\ table = <<>>
    /\ top_k = 0
    /\ vector_weight = 0
    /\ bm25_weight = 0
    /\ hyb_pc = "idle"
    /\ vector_search = <<>>
    /\ bm25_search = <<>>
    /\ fused = <<>>
    /\ hyb_result = <<>>
    \* no retrieval is made
    /\ ret_pc = "idle"
    /\ ret_args = NoArgs
    /\ ret_calls = <<>>
    /\ ret_result = NoResult
    \* no document is indexed
    /\ ix_pc = "idle"
    /\ ix_chunks = <<>>
    /\ ix_batch_size = 1
    /\ ix_processed = <<>>
    /\ ix_failed = 0
    /\ ix_store_calls = <<>>
    /\ ix_stored = <<>>
    /\ ix_result = NoResult
    \* no concurrent operation is made
    /\ conv_table = <<>>
    /\ goc = [r \in Requests |-> IdleOperation]
    /\ goc_messages = <<>>

\* documents of the sentences of PackingSentences
InitPacking ==
    /\ document \in SeqsUpTo(PackingSentences, MaxSentences)
    /\ chunk_size \in 1..MaxChunkSize
    /\ chunk_overlap \in 0..(chunk_size - 1)
    /\ chunk_dicts = <<>>
    /\ chunk_pc = "ready"
    /\ content_kind \in IF document = <<>> THEN EmptyKinds ELSE {"text"}
    /\ chunk_signals = <<>>
    \* the conversation memory is empty
    /\ conversations = {}
    /\ messages = <<>>
    /\ next_req = 0
    /\ chat = [r \in Requests |-> IdleRequest]
    \* the embedder is not used
    /\ emb_mode = "idle"
    /\ texts = <<>>
    /\ retry_count = 0
    /\ emb_pc = "idle"
    /\ emb_idx = 0
    /\ attempt = 0
    /\ provider_calls = <<>>
    /\ sleeps = <<>>
    /\ emb_result = NoResult
    /\ embeddings = <<>>
    /\ emb_log = <<>>
    \* no hybrid search is made
    /\ table = <<>>
    /\ top_k = 0
    /\ vector_weight = 0
    /\ bm25_weight = 0
    /\ hyb_pc = "idle"
    /\ vector_search = <<>>
    /\ bm25_search = <<>>
    /\ fused = <<>>
    /\ hyb_result = <<>>
    \* no retrieval is made
    /\ ret_pc = "idle"
    /\ ret_args = NoArgs
    /\ ret_calls = <<>>
    /\ ret_result = NoResult
    \* the reranker is not used
    /\ rr_pc = "idle"
    /\ rr_chunks_json = Null
    /\ rr_top_k = 0
    /\ rr_responses = <<>>
    /\ rr_reranked = <<>>
    /\ rr_output = NoOutput
    \* no document is indexed
    /\ ix_pc = "idle"
    /\ ix_chunks = <<>>
    /\ ix_batch_size = 1
    /\ ix_processed = <<>>
    /\ ix_failed = 0
    /\ ix_store_calls = <<>>
    /\ ix_stored = <<>>
    /\ ix_result = NoResult
    \* no concurrent operation is made
    /\ conv_table = <<>>
    /\ goc = [r \in Requests |-> IdleOperation]
    /\ goc_messages = <<>>

InitIndexer ==
    /\ ix_pc = "ready"
    /\ ix_chunks \in {IndexChunks(n) : n \in 0..MaxIndexChunks}
    /\ ix_batch_size \in 1..MaxBatch
    /\ ix_processed = <<>>
    /\ ix_failed = 0
    /\ ix_store_calls = <<>>
    /\ ix_stored = <<>>
    /\ ix_result = NoResult
    \* the chunker is not used
    /\ document = <<>>
    /\ chunk_size = 1
    /\ chunk_overlap = 0
    /\ chunk_dicts = <<>>
    /\ chunk_pc = "idle"
    /\ content_kind = "missing"
    /\ chunk_signals = <<>>
    \* the conversation memory is empty
    /\ conversations = {}
    /\ messages = <<>>
    /\ next_req = 0
    /\ chat = [r \in Requests |-> IdleRequest]
    \* the embedder is not used
    /\ emb_mode = "idle"
    /\ texts = <<>>
    /\ retry_count = 0
    /\ emb_pc = "idle"
    /\ emb_idx = 0
    /\ attempt = 0
    /\ provider_calls = <<>>
    /\ sleeps = <<>>
    /\ emb_result = NoResult
    /\ embeddings = <<>>
    /\ emb_log = <<>>
    \* no hybrid search is made
    /\ table = <<>>
    /\ top_k = 0
    /\ vector_weight = 0
    /\ bm25_weight = 0
    /\ hyb_pc = "idle"
    /\ vector_search = <<>>
    /\ bm25_search = <<>>
    /\ fused = <<>>
    /\ hyb_result = <<>>
    \* no retrieval is made
    /\ ret_pc = "idle"
    /\ ret_args = NoArgs
    /\ ret_calls = <<>>
    /\ ret_result = NoResult
    \* the reranker is not used
    /\ rr_pc = "idle"
    /\ rr_chunks_json = Null
    /\ rr_top_k = 0
    /\ rr_responses = <<>>
    /\ rr_reranked = <<>>
    /\ rr_output = NoOutput
    \* no concurrent operation is made
    /\ conv_table = <<>>
    /\ goc = [r \in Requests |-> IdleOperation]
    /\ goc_messages = <<>>

\* the chunk dictionaries of a caller of process_single_chunk
InitSingleChunk ==
    /\ ix_pc = "ready"
    /\ ix_chunks \in SeqsUpTo(SingleChunks, MaxIndexChunks) \ {<<>>}
    /\ ix_batch_size = 1
    /\ ix_processed = <<>>
    /\ ix_failed = 0
    /\ ix_store_calls = <<>>
    /\ ix_stored = <<>>
    /\ ix_result = NoResult
    \* the chunker is not used
    /\ document = <<>>
    /\ chunk_size = 1
    /\ chunk_overlap = 0
    /\ chunk_dicts = <<>>
    /\ chunk_pc = "idle"
    /\ content_kind = "missing"
    /\ chunk_signals = <<>>
    \* the conversation memory is empty
    /\ conversations = {}
    /\ messages = <<>>
    /\ next_req = 0
    /\ chat = [r \in Requests |-> IdleRequest]
    \* the embedder is not used
    /\ emb_mode = "idle"
    /\ texts = <<>>
    /\ retry_count = 0
    /\ emb_pc = "idle"
    /\ emb_idx = 0
    /\ attempt = 0
    /\ provider_calls = <<>>
    /\ sleeps = <<>>
    /\ emb_result = NoResult
    /\ embeddings = <<>>
    /\ emb_log = <<>>
    \* no hybrid search is made
    /\ table = <<>>
    /\ top_k = 0
    /\ vector_weight = 0
    /\ bm25_weight = 0
    /\ hyb_pc = "idle"
    /\ vector_search = <<>>
    /\ bm25_search = <<>>
    /\ fused = <<>>
    /\ hyb_result = <<>>
    \* no retrieval is made
    /\ ret_pc = "idle"
    /\ ret_args = NoArgs
    /\ ret_calls = <<>>
    /\ ret_result = NoResult
    \* the reranker is not used
    /\ rr_pc = "idle"
    /\ rr_chunks_json = Null
    /\ rr_top_k = 0
    /\ rr_responses = <<>>
    /\ rr_reranked = <<>>
    /\ rr_output = NoOutput
    \* no concurrent operation is made
    /\ conv_table = <<>>
    /\ goc = [r \in Requests |-> IdleOperation]
    /\ goc_messages = <<>>

\* documents whose sentences have up to three words of one or two tokens
InitSplit ==
    /\ document \in SeqsUpTo(SplitSentences, MaxSentences)
    /\ chunk_size \in 1..MaxChunkSize
    /\ chunk_overlap \in 0..(chunk_size - 1)
    /\ chunk_dicts = <<>>
    /\ chunk_pc = "ready"
    /\ content_kind \in IF document = <<>> THEN EmptyKinds ELSE {"text"}
    /\ chunk_signals = <<>>
    \* the conversation memory is empty
    /\ conversations = {}
    /\ messages = <<>>
    /\ next_req = 0
    /\ chat = [r \in Requests |-> IdleRequest]
    \* the embedder is not used
    /\ emb_mode = "idle"
    /\ texts = <<>>
    /\ retry_count = 0
    /\ emb_pc = "idle"
    /\ emb_idx = 0
    /\ attempt = 0
    /\ provider_calls = <<>>
    /\ sleeps = <<>>
    /\ emb_result = NoResult
    /\ embeddings = <<>>
    /\ emb_log = <<>>
    \* no hybrid search is made
    /\ table = <<>>
    /\ top_k = 0
    /\ vector_weight = 0
    /\ bm25_weight = 0
    /\ hyb_pc = "idle"
    /\ vector_search = <<>>
    /\ bm25_search = <<>>
    /\ fused = <<>>
    /\ hyb_result = <<>>
    \* no retrieval is made
    /\ ret_pc = "idle"
    /\ ret_args = NoArgs
    /\ ret_calls = <<>>
    /\ ret_result = NoResult
    \* the reranker is not used
    /\ rr_pc = "idle"
    /\ rr_chunks_json = Null
    /\ rr_top_k = 0
    /\ rr_responses = <<>>
    /\ rr_reranked = <<>>
    /\ rr_output = NoOutput
    \* no document is indexed
    /\ ix_pc = "idle"
    /\ ix_chunks = <<>>
    /\ ix_batch_size = 1
    /\ ix_processed = <<>>
    /\ ix_failed = 0
    /\ ix_store_calls = <<>>
    /\ ix_stored = <<>>
    /\ ix_result = NoResult
    \* no concurrent operation is made
    /\ conv_table = <<>>
    /\ goc = [r \in Requests |-> IdleOperation]
    /\ goc_messages = <<>>

InitSession ==
    /\ conv_table = <<>>
    /\ goc = [r \in Requests |-> IdleOperation]
    /\ goc_messages = <<>>
    \* the chunker is not used
    /\ document = <<>>
    /\ chunk_size = 1
    /\ chunk_overlap = 0
    /\ chunk_dicts = <<>>
    /\ chunk_pc = "idle"
    /\ content_kind = "missing"
    /\ chunk_signals = <<>>
    \* the conversation memory is empty
    /\ conversations = {}
    /\ messages = <<>>
    /\ next_req = 0
    /\ chat = [r \in Requests |-> IdleRequest]
    \* the embedder is not used
    /\ emb_mode = "idle"
    /\ texts = <<>>
    /\ retry_count = 0
    /\ emb_pc = "idle"
    /\ emb_idx = 0
    /\ attempt = 0
    /\ provider_calls = <<>>
    /\ sleeps = <<>>
    /\ emb_result = NoResult
    /\ embeddings = <<>>
    /\ emb_log = <<>>
    \* no hybrid search is made
    /\ table = <<>>
    /\ top_k = 0
    /\ vector_weight = 0
    /\ bm25_weight = 0
    /\ hyb_pc = "idle"
    /\ vector_search = <<>>
    /\ bm25_search = <<>>
    /\ fused = <<>>
    /\ hyb_result = <<>>
    \* no retrieval is made
    /\ ret_pc = "idle"
    /\ ret_args = NoArgs
    /\ ret_calls = <<>>
    /\ ret_result = NoResult
    \* the reranker is not used
    /\ rr_pc = "idle"
    /\ rr_chunks_json = Null
    /\ rr_top_k = 0
    /\ rr_responses = <<>>
    /\ rr_reranked = <<>>
    /\ rr_output = NoOutput
    \* no document is indexed
    /\ ix_pc = "idle"
    /\ ix_chunks = <<>>
    /\ ix_batch_size = 1
    /\ ix_processed = <<>>
    /\ ix_failed = 0
    /\ ix_store_calls = <<>>
    /\ ix_stored = <<>>
    /\ ix_result = NoResult

\* embed_text with any retry_count, a negative one included
InitEmbedText ==
    /\ emb_mode = "embed_text"
    /\ texts \in [1..1 -> Texts]
    /\ retry_count \in (-1)..MaxRetryCount
    /\ emb_pc = "call"
    /\ emb_idx = 1
    /\ attempt = 0
    /\ provider_calls = <<>>
    /\ sleeps = <<>>
    /\ emb_result = NoResult
    /\ embeddings = <<>>
    /\ emb_log = <<>>
    \* the chunker is not used
    /\ document = <<>>
    /\ chunk_size = 1
    /\ chunk_overlap = 0
    /\ chunk_dicts = <<>>
    /\ chunk_pc = "idle"
    /\ content_kind = "missing"
    /\ chunk_signals = <<>>
    \* the conversation memory is empty
    /\ conversations = {}
    /\ messages = <<>>
    /\ next_req = 0
    /\ chat = [r \in Requests |-> IdleRequest]
    \* no hybrid search is made
    /\ table = <<>>
    /\ top_k = 0
    /\ vector_weight = 0
    /\ bm25_weight = 0
    /\ hyb_pc = "idle"
    /\ vector_search = <<>>
    /\ bm25_search = <<>>
    /\ fused = <<>>
    /\ hyb_result = <<>>
    \* no retrieval is made
    /\ ret_pc = "idle"
    /\ ret_args = NoArgs
    /\ ret_calls = <<>>
    /\ ret_result = NoResult
    \* the reranker is not used
    /\ rr_pc = "idle"
    /\ rr_chunks_json = Null
    /\ rr_top_k = 0
    /\ rr_responses = <<>>
    /\ rr_reranked = <<>>
    /\ rr_output = NoOutput
    \* no document is indexed
    /\ ix_pc = "idle"
    /\ ix_chunks = <<>>
    /\ ix_batch_size = 1
    /\ ix_processed = <<>>
    /\ ix_failed = 0
    /\ ix_store_calls = <<>>
    /\ ix_stored = <<>>
    /\ ix_result = NoResult
    \* no concurrent operation is made
    /\ conv_table = <<>>
    /\ goc = [r \in Requests |-> IdleOperation]
    /\ goc_messages = <<>>

SpecChunker == InitChunker /\ [][NextChunker]_vars

SpecPacking == InitPacking /\ [][NextChunker]_vars

SpecSplit == InitSplit /\ [][NextChunker]_vars

SpecChat == InitMemory /\ [][NextChat]_vars

SpecWindow == InitMemory /\ [][NextWindow]_vars

SpecSessions == InitMemory /\ [][NextSessions]_vars

SpecEmbedder == InitEmbedder /\ [][NextEmbedder]_vars

SpecEmbedText == InitEmbedText /\ [][NextEmbedText]_vars

SpecHybrid == InitHybrid /\ [][NextHybrid]_vars

SpecRetrieval == InitRetrieval /\ [][NextRetrieval]_vars

SpecRerank == InitRerank /\ [][NextRerank]_vars

SpecIndexer == InitIndexer /\ [][NextIndexer]_vars

SpecSingleChunk == InitSingleChunk /\ [][NextSingleChunk]_vars

SpecSession == InitSession /\ [][NextSession]_vars

\* ------------------------------------------------------------------------
\* Claims about the Chunker
\* ------------------------------------------------------------------------
\* token count of a chunk: the sum of the token counts of the sentences or
\* words packed into it
UnitTokens(chunk) ==
    IF chunk.level = "sentence"
    THEN SumSeq([k \in 1..Len(chunk.units) |-> count_tokens(chunk.units[k])])
    ELSE SumSeq([k \in 1..Len(chunk.units) |-> count_tokens(<<chunk.units[k]>>)])

\* C1: every chunk returned by chunk_document has a token count <= chunk_size
\* unless it consists of a single unsplittable unit longer than chunk_size.
C1_ChunkWithinSize ==
    chunk_pc = "done" =>
        \A k \in 1..Len(chunk_dicts) :
            \/ UnitTokens(chunk_dicts[k]) <= chunk_size
            \/ /\ Len(chunk_dicts[k].units) = 1
               /\ chunk_dicts[k].level = "word"

\* the words a chunk adds after its k opening units
NewWords(chunk, k) ==
    IF chunk.level = "sentence"
    THEN split(Flatten(SubSeq(chunk.units, k + 1, Len(chunk.units))))
    ELSE chunk.units

\* the first k units of chunk i are the last k sentences of chunk i - 1 and
\* hold at most chunk_overlap tokens
OpensWithOverlap(i, k) ==
    \/ k = 0
    \/ /\ i > 1
       /\ chunk_dicts[i].level = "sentence"
       /\ chunk_dicts[i - 1].level = "sentence"
       /\ LET prev == chunk_dicts[i - 1].units
              head == SubSeq(chunk_dicts[i].units, 1, k)
          IN  /\ k <= Len(prev)
              /\ head = SubSeq(prev, Len(prev) - k + 1, Len(prev))
              /\ SumSeq([j \in 1..k |-> count_tokens(head[j])]) <= chunk_overlap

\* chunks i, i + 1, ... open with such overlaps and add, after them, the
\* words of the document from position q + 1 on, in order
RECURSIVE OverlapsExplain(_, _)
OverlapsExplain(i, q) ==
    IF i > Len(chunk_dicts)
    THEN q = Len(Flatten(document))
    ELSE \E k \in 0..(Len(chunk_dicts[i].units) - 1) :
             LET new == NewWords(chunk_dicts[i], k)
             IN  /\ OpensWithOverlap(i, k)
                 /\ q + Len(new) <= Len(Flatten(document))
                 /\ SubSeq(split(Flatten(document)), q + 1, q + Len(new)) = new
                 /\ OverlapsExplain(i + 1, q + Len(new))

\* C17: what opens a chunk before its first new sentence is a contiguous
\* suffix of the sentences of the chunk before it, in the same order, of at
\* most chunk_overlap tokens in total.
C17_OverlapIsBoundedSuffix ==
    chunk_pc = "done" => OverlapsExplain(1, 0)

\* three different sentences: the second closes the first chunk and opens
\* the second one, the first does not fit into the overlap
C17_Witness ==
    /\ chunk_pc = "done"
    /\ Len(document) = 3
    /\ document[1] # document[2]
    /\ document[2] # document[3]
    /\ Len(chunk_dicts) = 2
    /\ chunk_dicts[1].units = <<document[1], document[2]>>
    /\ chunk_dicts[2].units = <<document[2], document[3]>>
    /\ count_tokens(document[2]) + count_tokens(document[1]) > chunk_overlap

\* C19: chunking a document whose content is missing, empty or holds no
\* sentence returns no chunk and logs a warning.
C19_EmptyDocumentWarns ==
    chunk_pc = "done" /\ content_kind \in EmptyKinds =>
        /\ chunk_dicts = <<>>
        /\ \E i \in 1..Len(chunk_signals) : chunk_signals[i] = "warning"

\* the sum of the token counts of the sentences of the document
DocumentTokens ==
    SumSeq([i \in 1..Len(document) |-> count_tokens(document[i])])

\* one chunk that holds every sentence of the document in original order
OneChunkOfAll ==
    /\ Len(chunk_dicts) = 1
    /\ chunk_dicts[1].level = "sentence"
    /\ chunk_dicts[1].units = document
    /\ chunk_dicts[1].content = Flatten(document)
    /\ chunk_dicts[1].chunk_index = 0
    /\ chunk_dicts[1].total_chunks = 1

\* C21 as stated: whenever the token counts of the sentences of the document
\* sum to at most chunk_size, chunk_document returns exactly one chunk with
\* every sentence in original order, chunk_index 0 and total_chunks 1.
C21_Original ==
    (chunk_pc = "done" /\ DocumentTokens <= chunk_size) => OneChunkOfAll

\* C21: when the document has at least one sentence and the token counts of
\* its sentences sum to at most chunk_size, chunk_document returns exactly
\* one chunk with every sentence in original order, chunk_index 0 and
\* total_chunks 1.
C21_OneChunkWhenFits ==
    (chunk_pc = "done" /\ document # <<>> /\ DocumentTokens <= chunk_size)
        => OneChunkOfAll

\* three sentences that fill chunk_size exactly come back as one chunk
C21_Witness ==
    /\ chunk_pc = "done"
    /\ Len(document) = 3
    /\ DocumentTokens = chunk_size
    /\ OneChunkOfAll
\* a sentence that takes the long-sentence branch
IsLong(sentence) == count_tokens(sentence) > chunk_size

\* chunks i .. i + m - 1 are the word-level chunks of the long sentence: its
\* words once and in order, and a chunk followed by another one of them
\* could not have taken the first word of that one (the token counts of the
\* words added up, as the loop over the words adds them)
WordChunksOf(i, m, sentence) ==
    /\ \A k \in i..(i + m - 1) :
           /\ chunk_dicts[k].level = "word"
           /\ chunk_dicts[k].units # <<>>
    /\ Flatten([k \in 1..m |-> chunk_dicts[i + k - 1].units]) = split(sentence)
    /\ \A k \in i..(i + m - 2) :
           UnitTokens(chunk_dicts[k])
               + count_tokens(<<chunk_dicts[k + 1].units[1]>>) > chunk_size

\* chunk i is a sentence-level chunk that adds the c sentences from position
\* p on, none of them long, after the sentences it repeats from the end of
\* chunk i - 1; it repeats none when chunk i - 1 is no sentence-level chunk
SentenceChunkOf(i, c, p, prev) ==
    LET units == chunk_dicts[i].units
        k == Len(units) - c
    IN  /\ chunk_dicts[i].level = "sentence"
        /\ k >= 0
        /\ p + c - 1 <= Len(document)
        /\ SubSeq(units, k + 1, k + c) = SubSeq(document, p, p + c - 1)
        /\ \A j \in p..(p + c - 1) : ~IsLong(document[j])
        /\ k > 0 =>
               /\ prev = "sentence"
               /\ k <= Len(chunk_dicts[i - 1].units)
               /\ SubSeq(units, 1, k) =
                      SubSeq(chunk_dicts[i - 1].units,
                             Len(chunk_dicts[i - 1].units) - k + 1,
                             Len(chunk_dicts[i - 1].units))

\* the chunks from i on are those of the sentences from position p on, prev
\* being the level of chunk i - 1: a long sentence has word-level chunks of
\* its own, between the chunk that closes the sentences before it and the
\* chunk that opens with the sentence after it
RECURSIVE SplitsExplain(_, _, _)
SplitsExplain(i, p, prev) ==
    IF p > Len(document)
    THEN i = Len(chunk_dicts) + 1
    ELSE IF i > Len(chunk_dicts)
    THEN FALSE
    ELSE IF IsLong(document[p])
    THEN \E m \in 1..(Len(chunk_dicts) - i + 1) :
             /\ WordChunksOf(i, m, document[p])
             /\ SplitsExplain(i + m, p + 1, "word")
    ELSE \E c \in 1..(Len(document) - p + 1) :
             /\ SentenceChunkOf(i, c, p, prev)
             /\ SplitsExplain(i + 1, p + c, "sentence")

\* C25: a sentence of more than chunk_size tokens comes back as word-level
\* chunks of its own, after the chunk that closes the sentences before it:
\* they hold its words once and in order, none opening with words of the
\* chunk before it, each one closed only when the next word would have taken
\* it over chunk_size, and the chunk after them opens with the next sentence
\* and repeats nothing of the long one.
C25_LongSentenceSplitByWords ==
    chunk_pc = "done" => SplitsExplain(1, 1, "none")

\* a short sentence that would fit the overlap, a long sentence of three
\* words packed into a chunk of two words and a chunk of one, and a short
\* sentence after it: four chunks
C25_Witness ==
    /\ chunk_pc = "done"
    /\ Len(document) = 3
    /\ ~IsLong(document[1])
    /\ count_tokens(document[1]) <= chunk_overlap
    /\ IsLong(document[2])
    /\ ~IsLong(document[3])
    /\ Len(chunk_dicts) = 4
    /\ chunk_dicts[1].units = <<document[1]>>
    /\ chunk_dicts[2].level = "word"
    /\ Len(chunk_dicts[2].units) = 2
    /\ chunk_dicts[3].level = "word"
    /\ chunk_dicts[4].units = <<document[3]>>

\* the sentences of the document, a long sentence replaced by its words,
\* each word as a sentence of its own
DocumentUnits ==
    Flatten([p \in 1..Len(document) |->
                IF IsLong(document[p])
                THEN [j \in 1..Len(document[p]) |-> <<split(document[p])[j]>>]
                ELSE <<document[p]>>])

\* the units of a chunk after its k opening units, written the same way
AddedUnits(chunk, k) ==
    IF chunk.level = "sentence"
    THEN SubSeq(chunk.units, k + 1, Len(chunk.units))
    ELSE [j \in 1..(Len(chunk.units) - k) |-> <<chunk.units[k + j]>>]

\* the first k units of chunk i are the last k units of chunk i - 1
SharesPrefix(i, k) ==
    \/ k = 0
    \/ /\ i > 1
       /\ chunk_dicts[i].level = chunk_dicts[i - 1].level
       /\ k <= Len(chunk_dicts[i - 1].units)
       /\ SubSeq(chunk_dicts[i].units, 1, k) =
              SubSeq(chunk_dicts[i - 1].units,
                     Len(chunk_dicts[i - 1].units) - k + 1,
                     Len(chunk_dicts[i - 1].units))

\* the chunks from i on, each without a prefix it shares with the chunk
\* before it, add up to the units of the document from position q + 1 on
RECURSIVE UnitsExplain(_, _)
UnitsExplain(i, q) ==
    IF i > Len(chunk_dicts)
    THEN q = Len(DocumentUnits)
    ELSE \E k \in 0..(Len(chunk_dicts[i].units) - 1) :
             LET new == AddedUnits(chunk_dicts[i], k)
             IN  /\ SharesPrefix(i, k)
                 /\ q + Len(new) <= Len(DocumentUnits)
                 /\ SubSeq(DocumentUnits, q + 1, q + Len(new)) = new
                 /\ UnitsExplain(i + 1, q + Len(new))

\* C26: no chunk is empty, the n chunks carry chunk_index 0 .. n - 1 in the
\* order they were emitted and total_chunks n, and the chunks, each without
\* the prefix it shares with the chunk before it, add up to the sentences of
\* the document, a split long sentence counting as its words, every one
\* once and in original order.
C26_NothingLostOrReordered ==
    chunk_pc = "done" =>
        /\ \A i \in 1..Len(chunk_dicts) :
               /\ chunk_dicts[i].units # <<>>
               /\ chunk_dicts[i].content # <<>>
               /\ chunk_dicts[i].chunk_index = i - 1
               /\ chunk_dicts[i].total_chunks = Len(chunk_dicts)
        /\ UnitsExplain(1, 0)

\* a chunk that opens with the last sentence of the chunk before it, and a
\* long sentence split into words after it
C26_Witness ==
    /\ chunk_pc = "done"
    /\ Len(chunk_dicts) >= 4
    /\ chunk_dicts[2].level = "sentence"
    /\ Len(chunk_dicts[2].units) = 2
    /\ chunk_dicts[2].units[1] = Last(chunk_dicts[1].units)
    /\ chunk_dicts[2].units[1] # chunk_dicts[2].units[2]
    /\ chunk_dicts[3].level = "word"
    /\ chunk_dicts[4].level = "word"

\* ------------------------------------------------------------------------
\* Claims about the conversation memory
\* ------------------------------------------------------------------------
WindowTokens(w) == SumSeq([k \in 1..Len(w) |-> memory_count_tokens(w[k].content)])

\* the stored turns of a session: the committed rows of its conversation row
StoredTurns(s) ==
    ConversationMessages(messages, ConversationBySessionId(conversations, s))

\* the window a read of session s returns from the tables convs and msgs
WindowOf(msgs, convs, s) ==
    get_conversation_history(msgs, ConversationBySessionId(convs, s))

\* request r holds a window that get_conversation_history returned to it
HoldsWindow(r) == chat[r].pc \in {"retrieving", "responding"}

\* request r runs the SELECT of its window and get_conversation_history
\* returns
ReadsWindow(r) ==
    /\ chat[r].pc = "history"
    /\ chat[r].step = "messages"
    /\ chat'[r].pc \in {"retrieving", "responding"}

\* the stored turns of the session of request r when it runs the SELECT of
\* its window: those of the session's conversation row, which is the row the
\* request got from get_or_create; none when a DELETE has removed that row
\* since, and with it every turn the session had
TurnsAtRead(r) ==
    IF chat[r].conversation \in conversations
    THEN StoredTurns(chat[r].session_id)
    ELSE <<>>

\* C2: every window that get_conversation_history has returned, to a chat
\* request or to GET /conversations/{session_id}, whatever requests ran
\* beside it, holds at most max_messages turns and at most max_tokens tokens
\* in total.
C2_WindowWithinBudget ==
    \A r \in Requests :
        /\ Len(chat[r].conversation_history) <= max_messages
        /\ WindowTokens(chat[r].conversation_history) <= max_tokens

\* a window cut by the message count, read while another request of the
\* session was storing its turns
C2_Witness ==
    \E r, q \in Requests :
        /\ HoldsWindow(r)
        /\ Len(chat[r].conversation_history) = max_messages
        /\ Len(StoredTurns(chat[r].session_id)) > max_messages
        /\ chat[q].pc \in {"user", "assistant"}
        /\ chat[q].session_id = chat[r].session_id

\* C3: the window a read returns is a contiguous suffix of the session's
\* stored turns at the SELECT of the read, oldest first, and the newest turn
\* left out is left out because the message count was reached or because it
\* would exceed the token budget.
C3_WindowIsGreedySuffix ==
    [][\A r \in Requests :
           ReadsWindow(r) =>
               LET stored == TurnsAtRead(r)
                   window == chat'[r].conversation_history
                   n == Len(stored)
                   k == Len(window)
               IN  /\ k <= n
                   /\ \A i \in 1..k :
                          /\ window[i].role = stored[n - k + i].role
                          /\ window[i].content = stored[n - k + i].content
                   /\ k < n =>
                          \/ k = max_messages
                          \/ WindowTokens(window)
                               + memory_count_tokens(stored[n - k].content)
                                   > max_tokens]_vars

\* a non-empty window that the token budget cut before the message count:
\* the stored turn before its first turn has no room in it
C3_Witness ==
    \E r \in Requests :
        LET stored == StoredTurns(chat[r].session_id)
            window == chat[r].conversation_history
            n == Len(stored)
            k == Len(window)
        IN  /\ HoldsWindow(r)
            /\ 0 < k
            /\ k < max_messages
            /\ k < n
            /\ \A i \in 1..k : window[i].content = stored[n - k + i].content
            /\ WindowTokens(window) + memory_count_tokens(stored[n - k].content)
                   > max_tokens

\* C4: no window read by a chat request ends in a user turn whose assistant
\* turn is not stored yet, and in the stored history of a session every
\* user turn that has a successor is followed by the assistant turn of the
\* same request.
C4_AppendThenReadSerialized ==
    /\ \A r \in Requests :
           chat[r].conversation_history # <<>> =>
               Last(chat[r].conversation_history).role = "assistant"
    /\ \A s \in Sessions :
           LET stored == StoredTurns(s)
           IN  \A i \in 1..(Len(stored) - 1) :
                   stored[i].role = "user" =>
                       /\ stored[i + 1].role = "assistant"
                       /\ stored[i + 1].origin = stored[i].origin

\* C15: stored history is append-only while chat requests run: a step that
\* adds a turn to the stored turns of a conversation adds exactly one, after
\* all the turns stored for it, and changes none of them; a step that reads
\* a window leaves the stored turns of every conversation as they are.
C15_HistoryAppendOnly ==
    [][/\ \A c \in conversations \cap conversations' :
              LET before == ConversationMessages(messages, c)
                  after == ConversationMessages(messages', c)
              IN  Len(after) > Len(before) =>
                      /\ Len(after) = Len(before) + 1
                      /\ SubSeq(after, 1, Len(before)) = before
       /\ (\E r \in Requests : ReadsWindow(r)) =>
              Visible(messages') = Visible(messages)]_vars

\* the rows written for session s
OwnTurns(s) == SelectSeq(messages, LAMBDA m : m.conversation_id.session_id = s)

\* the session a step of request r works for
SessionOf(r) ==
    IF chat[r].pc = "idle" THEN chat'[r].session_id ELSE chat[r].session_id

\* C16: no statement run for one session (of a chat request that appends, of
\* a GET that reads, of a DELETE that clears) changes the window of another
\* session, and the window a read returns for a session is the window of the
\* rows written for that session alone.
C16_SessionsIndependent ==
    [][/\ \A r \in Requests, s \in Sessions :
              (chat'[r] # chat[r] /\ SessionOf(r) # s) =>
                  WindowOf(messages', conversations', s)
                      = WindowOf(messages, conversations, s)
       /\ \A r \in Requests :
              ReadsWindow(r) =>
                  chat'[r].conversation_history
                      = get_conversation_history(OwnTurns(chat[r].session_id),
                                                 chat[r].conversation)]_vars

\* a non-empty window read for s1 after a chat request of s2 stored a turn,
\* the newest row of the table, and while that request is still running
C16_Witness ==
    \E r, q \in Requests :
        /\ HoldsWindow(r)
        /\ chat[r].session_id = "s1"
        /\ chat[r].conversation_history # <<>>
        /\ chat[q].session_id = "s2"
        /\ chat[q].pc = "assistant"
        /\ messages # <<>>
        /\ Last(messages).conversation_id.session_id = "s2"
        /\ Last(messages).committed

\* the rows among msgs stored on behalf of chat request r
OwnRows(msgs, r) == SelectSeq(Visible(msgs), LAMBDA m : m.origin = r)

\* the row of a turn of request r, in the conversation row it holds
TurnRow(r, role, content) ==
    MessageRow(chat[r].conversation, role, content, r, TRUE)

\* after is before with one more row, row, at some place
IsInsertion(before, after, row) ==
    \E i \in 1..Len(after) :
        /\ after[i] = row
        /\ before = SubSeq(after, 1, i - 1) \o SubSeq(after, i + 1, Len(after))

\* request r has taken a step to the end of an add_message whose INSERT was
\* committed
Stored(r, role) ==
    /\ chat[r].pc = role
    /\ chat[r].step = "insert"
    /\ chat'[r].pc = role
    /\ chat'[r].step = "refresh_message"

\* own is the pair of request r: its user turn with the query, then its
\* assistant turn with the response, in one conversation
IsPair(own, r) ==
    /\ Len(own) = 2
    /\ own[1].role = "user"
    /\ own[1].content = chat[r].query
    /\ own[2].role = "assistant"
    /\ own[2].content = chat[r].response_text
    /\ own[1].conversation_id = own[2].conversation_id

\* the step is one of a chat request r
IsChatStep(r) ==
    /\ chat'[r] # chat[r]
    /\ "chat_completion" \in {chat[r].op, chat'[r].op}

\* what a step of chat request r does to the stored history
TurnsStoredAtEnd(r) ==
    /\ chat'[r].pc = "retrieving" =>
           /\ OwnRows(messages', r) = <<>>
           /\ chat'[r].conversation_history =
                  IF chat'[r].session_id = NoSession
                  THEN <<>>
                  ELSE get_conversation_history(messages, chat[r].conversation)
    /\ chat'[r].pc \in {"history", "user"} => OwnRows(messages', r) = <<>>
    /\ (chat'[r].pc = "failed" /\ chat[r].pc \in {"idle", "history", "retrieving"}) =>
           OwnRows(messages', r) = <<>>
    /\ chat'[r].pc = "failed" =>
           \/ OwnRows(messages', r) = <<>>
           \/ IsPair(OwnRows(messages', r), r)
    /\ chat'[r].pc = "done" =>
           IF chat[r].session_id = NoSession
           THEN OwnRows(messages', r) = <<>>
           ELSE /\ chat[r].pc = "assistant"
                /\ IsPair(OwnRows(messages', r), r)
    /\ IF Stored(r, "user")
       THEN /\ OwnRows(messages, r) = <<>>
            /\ IsInsertion(Visible(messages), Visible(messages'),
                           TurnRow(r, "user", chat[r].query))
       ELSE IF Stored(r, "assistant")
       THEN IsInsertion(Visible(messages), Visible(messages'),
                        TurnRow(r, "assistant", chat[r].response_text))
       ELSE Visible(messages') = Visible(messages)

\* C28: a chat request changes the stored history only at its end and as a
\* pair: it reads its window while nothing of it is stored; a request that
\* fails before its response is generated, or that has no session, has
\* stored no turn; after the response was generated it stores its user turn
\* and then its assistant turn, one row each, and changes nothing else; when
\* it ends, its stored turns are both or none, and when it returns its
\* response they are both, the user turn with the query followed by the
\* assistant turn with the response.
C28_TurnsStoredAsPairAtEnd ==
    [][\A r \in Requests : IsChatStep(r) => TurnsStoredAtEnd(r)]_vars

\* ------------------------------------------------------------------------
\* Claims about the Embedder
\* ------------------------------------------------------------------------
Blank(text) == text \in {"", " "}
Transient(outcome) == outcome \in {"timeout", "transport"}
Doubling(n) == [i \in 1..n |-> 2 ^ (i - 1)]

\* C5: embed_batch never raises and returns one result per text, in input
\* order: None exactly for the texts whose embed_text failed (the empty
\* and whitespace-only ones among them), the text's own vector otherwise.
C5_BatchIsolatesFailures ==
    emb_mode = "embed_batch" =>
        /\ emb_pc # "raised"
        /\ emb_pc = "returned" =>
               /\ Len(embeddings) = Len(texts)
               /\ \A i \in 1..Len(texts) :
                      /\ (embeddings[i] = None) <=> (emb_log[i] = "raised")
                      /\ emb_log[i] = "returned" =>
                             embeddings[i] = Embedding(texts[i])
                      /\ Blank(texts[i]) => embeddings[i] = None

\* a finished batch with an absent result for an empty text and a vector
\* for another text
C5_Witness ==
    /\ emb_mode = "embed_batch"
    /\ emb_pc = "returned"
    /\ \E i, j \in 1..Len(texts) :
           /\ i < j
           /\ Blank(texts[i])
           /\ embeddings[i] = None
           /\ embeddings[j] = Embedding(texts[j])

\* C6: no provider call follows a successful one; an embed_text whose calls
\* all ended in a timeout or transport failure made exactly retry_count
\* calls, slept 1, 2, 4, ... between them and not after the last, and
\* raised; one whose last call succeeded returned that vector.
C6_RetryWithBackoff ==
    /\ \A i \in 1..(Len(provider_calls) - 1) : provider_calls[i] # "ok"
    /\ (emb_pc = "attempt"
        /\ \A i \in 1..Len(provider_calls) : Transient(provider_calls[i])) =>
           sleeps = Doubling(Len(provider_calls))
    /\ (emb_pc = "finished" /\ ~Blank(texts[emb_idx])) =>
           /\ (\A i \in 1..Len(provider_calls) : Transient(provider_calls[i])) =>
                  /\ Len(provider_calls) = retry_count
                  /\ sleeps = Doubling(retry_count - 1)
                  /\ emb_result = Raised("RuntimeError")
           /\ (provider_calls # <<>> /\ Last(provider_calls) = "ok") =>
                  emb_result = Returned_(Embedding(texts[emb_idx]))

\* three transient failures in a row: three calls, delays 1 and 2, an error
C6_Witness ==
    /\ emb_pc = "finished"
    /\ retry_count = 3
    /\ Len(provider_calls) = 3
    /\ \A i \in 1..3 : Transient(provider_calls[i])
    /\ sleeps = <<1, 2>>
    /\ emb_result = Raised("RuntimeError")

\* C7: embed_text on an empty or whitespace-only text raises the validation
\* error at once: no provider call, no sleep, whatever retry_count is.
C7_EmptyTextFailsAtOnce ==
    (emb_pc \in {"attempt", "finished"} /\ Blank(texts[emb_idx])) =>
        /\ emb_pc = "finished"
        /\ emb_result = Raised("ValueError")
        /\ provider_calls = <<>>
        /\ sleeps = <<>>

\* a whitespace-only text rejected although retries were allowed
C7_Witness ==
    /\ emb_pc = "finished"
    /\ texts[emb_idx] = " "
    /\ retry_count > 0
    /\ emb_result = Raised("ValueError")
    /\ provider_calls = <<>>

\* C8: a provider call that ends in an HTTP error response is the last call
\* of its embed_text: the error is raised, the call is not retried.
C8_RejectionNotRetried ==
    \A i \in 1..Len(provider_calls) :
        provider_calls[i] = "http_error" =>
            /\ i = Len(provider_calls)
            /\ emb_pc # "attempt"
\* a provider call that answered without an embedding is the last one: the
\* call has ended with an error and no sleep followed the attempt
NoEmbeddingEndsCall ==
    \A i \in 1..Len(provider_calls) :
        provider_calls[i] = "no_embedding" =>
            /\ i = Len(provider_calls)
            /\ emb_pc = "finished"
            /\ emb_result = Raised("RuntimeError")
            /\ Len(sleeps) = i - 1

\* with a retry_count of 0 or less the call has failed without a provider
\* call
NoCallWithoutRetries ==
    (retry_count <= 0 /\ emb_pc \in {"attempt", "finished"}) =>
        /\ emb_pc = "finished"
        /\ emb_result.status = "raised"
        /\ provider_calls = <<>>
        /\ sleeps = <<>>

\* C30 as stated: a response without an embedding ends embed_text with an
\* error right after that attempt, with a retry_count of 0 or less no
\* provider call is made and the call fails, and in every case the number
\* of provider calls is at most retry_count.
C30_Original ==
    /\ NoEmbeddingEndsCall
    /\ NoCallWithoutRetries
    /\ emb_pc \in {"attempt", "finished"} => Len(provider_calls) <= retry_count

\* C30: a response without an embedding ends embed_text with an error right
\* after that attempt, with a retry_count of 0 or less no provider call is
\* made and the call fails, and the number of provider calls is at most
\* retry_count when that is positive and zero otherwise.
C30_NoEmbeddingNotRetried ==
    /\ NoEmbeddingEndsCall
    /\ NoCallWithoutRetries
    /\ emb_pc \in {"attempt", "finished"} =>
           Len(provider_calls) <= IF retry_count > 0 THEN retry_count ELSE 0

\* a timeout, one sleep, then a response without an embedding: the call
\* ends there although a third attempt was allowed
C30_Witness ==
    /\ emb_pc = "finished"
    /\ retry_count = 3
    /\ provider_calls = <<"timeout", "no_embedding">>
    /\ sleeps = <<1>>
    /\ emb_result = Raised("RuntimeError")

\* ------------------------------------------------------------------------
\* Claims about the hybrid search
\* ------------------------------------------------------------------------
SeqIds(rows) == {rows[k].id : k \in 1..Len(rows)}

\* C9: every chunk of vector_search or bm25_search has exactly one fused
\* row; a fused row carries the chunk's score on each side where the chunk
\* is present and 0 on a side where it is missing, and its combined score
\* is vector_score * vector_weight + bm25_score * bm25_weight.
C9_FusionIsFullOuterJoin ==
    hyb_pc = "done" =>
        /\ \A id \in SeqIds(vector_search) \cup SeqIds(bm25_search) :
               Cardinality({k \in 1..Len(fused) : fused[k].id = id}) = 1
        /\ \A k \in 1..Len(fused) :
               LET r == fused[k]
               IN  /\ r.id \in SeqIds(vector_search) \cup SeqIds(bm25_search)
                   /\ r.vector_score = IF r.id \in SeqIds(vector_search)
                                       THEN table[r.id].similarity ELSE 0
                   /\ r.bm25_score = IF r.id \in SeqIds(bm25_search)
                                     THEN table[r.id].rank ELSE 0
                   /\ r.score = r.vector_score * vector_weight
                                + r.bm25_score * bm25_weight

\* weights (0.6, 0.4): a vector-only chunk of similarity 0.9 fused to 0.54,
\* a chunk on both sides with (0.8, 0.5) fused to 0.68, and a chunk that
\* only the lexical side returned
C9_Witness ==
    /\ hyb_pc = "done"
    /\ vector_weight = 6
    /\ bm25_weight = 4
    /\ \E k \in 1..Len(fused) :
           /\ fused[k].id \notin SeqIds(bm25_search)
           /\ fused[k].vector_score = 9
           /\ fused[k].score = 54
    /\ \E k \in 1..Len(fused) :
           /\ fused[k].vector_score = 8
           /\ fused[k].bm25_score = 5
           /\ fused[k].score = 68
    /\ \E k \in 1..Len(fused) : fused[k].id \notin SeqIds(vector_search)

\* C10: hybrid_search returns min(top_k, number of fused rows) rows of the
\* fused set, each chunk at most once, in non-increasing order of combined
\* score, and no fused row left out scores higher than a returned row.
C10_TopKByCombinedScore ==
    hyb_pc = "done" =>
        /\ Len(hyb_result) <= top_k
        /\ Len(hyb_result) = IF top_k < Len(fused) THEN top_k ELSE Len(fused)
        /\ \A i \in 1..(Len(hyb_result) - 1) :
               hyb_result[i].score >= hyb_result[i + 1].score
        /\ \A i \in 1..Len(hyb_result) :
               /\ \E k \in 1..Len(fused) : fused[k] = hyb_result[i]
               /\ \A j \in 1..Len(hyb_result) :
                      i # j => hyb_result[i].id # hyb_result[j].id
        /\ \A k \in 1..Len(fused) :
               fused[k].id \notin SeqIds(hyb_result) =>
                   \A i \in 1..Len(hyb_result) :
                       fused[k].score <= hyb_result[i].score

\* a result cut by top_k that leaves out a lower-scored fused row which the
\* join produced before a returned one
C10_Witness ==
    /\ hyb_pc = "done"
    /\ top_k = 2
    /\ Len(hyb_result) = 2
    /\ hyb_result[1].score > hyb_result[2].score
    /\ \E k \in 1..Len(fused) :
           /\ fused[k].id \notin SeqIds(hyb_result)
           /\ fused[k].score < hyb_result[2].score
           /\ \E m \in 1..Len(fused) : m > k /\ fused[m].id \in SeqIds(hyb_result)

\* the order by combined score, then vector score, then insertion
Precedes(r1, r2) ==
    \/ r1.score > r2.score
    \/ r1.score = r2.score /\ r1.vector_score > r2.vector_score
    \/ r1.score = r2.score /\ r1.vector_score = r2.vector_score /\ r1.id < r2.id

\* C11: rows of the result with equal combined score come with the higher
\* vector score first and, when that is equal too, in insertion order of
\* their chunks; and a fused row that was cut off never precedes, in that
\* order, a returned row of the same combined score.
C11_TiesByVectorScoreThenInsertion ==
    hyb_pc = "done" =>
        /\ \A i \in 1..(Len(hyb_result) - 1) :
               Precedes(hyb_result[i], hyb_result[i + 1])
        /\ \A k \in 1..Len(fused) :
               fused[k].id \notin SeqIds(hyb_result) =>
                   \A i \in 1..Len(hyb_result) :
                       Precedes(hyb_result[i], fused[k])
\* the chunks whose text matches the query
Matching == {i \in 1..Len(table) : table[i].matches}

\* rows is a list of min(2 * top_k, |among|) different chunks of among, each
\* with its score, and no chunk of among left out scores higher than one of
\* the list
BestOf(rows, among, score) ==
    /\ Len(rows) <= 2 * top_k
    /\ Len(rows) = IF 2 * top_k < Cardinality(among)
                   THEN 2 * top_k ELSE Cardinality(among)
    /\ Cardinality(SeqIds(rows)) = Len(rows)
    /\ SeqIds(rows) \subseteq among
    /\ \A k \in 1..Len(rows) : rows[k].score = score[rows[k].id]
    /\ \A i \in among \ SeqIds(rows) :
           \A k \in 1..Len(rows) : score[i] <= rows[k].score

\* C24: vector_search holds the min(2 * top_k, n) chunks of highest
\* similarity and bm25_search the min(2 * top_k, m) chunks of highest rank
\* among the m chunks that match the query, so neither holds more than
\* 2 * top_k chunks and no chunk that does not match is in bm25_search; every
\* chunk of the result is in one of the two.
C24_CandidateSetsCapped ==
    hyb_pc = "done" =>
        /\ BestOf(vector_search, 1..Len(table),
                  [i \in 1..Len(table) |-> table[i].similarity])
        /\ BestOf(bm25_search, Matching, [i \in 1..Len(table) |-> table[i].rank])
        /\ SeqIds(hyb_result) \subseteq SeqIds(vector_search) \cup SeqIds(bm25_search)

\* three chunks and top_k = 1: the two nearest are the vector set, the third
\* is left out of it, does not match the query and is in neither set nor
\* in the result
C24_Witness ==
    /\ hyb_pc = "done"
    /\ top_k = 1
    /\ Len(table) = 3
    /\ Len(vector_search) = 2
    /\ \E i \in 1..Len(table) :
           /\ ~table[i].matches
           /\ i \notin SeqIds(vector_search)
           /\ i \notin SeqIds(bm25_search)
           /\ i \notin SeqIds(hyb_result)
    /\ Len(hyb_result) = 1

\* ------------------------------------------------------------------------
\* Claims about the retrieval
\* ------------------------------------------------------------------------
RetrieveReturned == ret_pc = "done" /\ ret_result.status = "returned"

\* C12: when retrieve is given an equality filter, every chunk of the list
\* it returns has the filtered metadata value.
C12_FiltersNarrowResult ==
    RetrieveReturned /\ ret_args.filters # Null =>
        \A i \in 1..Len(ret_result.value.chunks) :
            ret_result.value.chunks[i].metadata = ret_args.filters[1]

CallsTo(callee) == {i \in 1..Len(ret_calls) : ret_calls[i].callee = callee}

RetrieveFailed == \E i \in 1..Len(ret_calls) : ret_calls[i].outcome # "ok"

\* C20: when the provider or the storage query failed during retrieve, the
\* call ends with one RuntimeError and returns no result; the embedding was
\* requested at most once and the storage queried at most once, and nothing
\* was called after the call that failed.
C20_FailureIsOneError ==
    ret_pc = "done" /\ RetrieveFailed =>
        /\ ret_result = Raised("RuntimeError")
        /\ Cardinality(CallsTo("requests.post")) <= 1
        /\ Cardinality(CallsTo("hybrid_search")) <= 1
        /\ \A i \in 1..Len(ret_calls) : ret_calls[i].outcome # "ok" => i = Len(ret_calls)

\* the storage query failed over a table that holds chunks, after the
\* embedding of the query had succeeded
C20_Witness ==
    /\ ret_pc = "done"
    /\ table # <<>>
    /\ ret_calls = <<[callee |-> "requests.post", outcome |-> "ok"],
                     [callee |-> "hybrid_search", outcome |-> "error"]>>
    /\ ret_result = Raised("RuntimeError")

\* the provider timed out: one request and no storage query
C20_WitnessTimeout ==
    /\ ret_pc = "done"
    /\ ret_calls = <<[callee |-> "requests.post", outcome |-> "timeout"]>>
    /\ ret_result = Raised("RuntimeError")

\* ------------------------------------------------------------------------
\* Claims about the reranker
\* ------------------------------------------------------------------------
InRange(score) == ~score.nan /\ 0 <= score.v /\ score.v <= 10

\* C13: the reranker returns at most top_k chunks and at most as many as it
\* was given, and the count it reports is the length of the list; on a
\* failure it returns no chunk at all.
C13_OutputSizeBounded ==
    rr_pc = "done" =>
        IF rr_output.success
        THEN /\ rr_chunks_json # Null
             /\ Len(rr_output.chunks) <= rr_top_k
             /\ Len(rr_output.chunks) <= Len(rr_chunks_json[1])
             /\ rr_output.reranked_count = Len(rr_output.chunks)
        ELSE DOMAIN rr_output = {"success", "error"}

\* more candidates than 2 * top_k were given and top_k of them come back
C13_Witness ==
    /\ rr_pc = "done"
    /\ rr_output.success
    /\ rr_top_k = 1
    /\ Len(rr_chunks_json[1]) > 2 * rr_top_k
    /\ Len(rr_reranked) = 2 * rr_top_k
    /\ Len(rr_output.chunks) = rr_top_k

\* C14: a run over a list of chunks succeeds whatever the scorer answers;
\* every chunk of the prefix is scored, with 0.5 when the scorer raised or
\* its answer was blank or no number, with the answer clamped to [0, 1]
\* when it was a number, and in every case with a score in [0, 1].
C14_ScoringFailureIsNeutral ==
    rr_pc = "done" /\ rr_chunks_json # Null =>
        /\ rr_output.success
        /\ Len(rr_responses) = Len(ScoredPrefix(rr_chunks_json[1], rr_top_k))
        /\ Len(rr_reranked) = Len(rr_responses)
        /\ \A i \in 1..Len(rr_responses) :
               \E j \in 1..Len(rr_reranked) :
                   LET response == rr_responses[i]
                       chunk == rr_reranked[j]
                   IN  /\ chunk.id = i
                       /\ InRange(chunk.rerank_score)
                       /\ response.kind \in {"error", "empty", "word"} =>
                              chunk.rerank_score.v = 5
                       /\ response.kind = "number" =>
                              chunk.rerank_score.v =
                                  IF response.value < 0 THEN 0
                                  ELSE IF response.value > 10 THEN 10
                                  ELSE response.value

\* the scorer raised for the first chunk and answered 1.2 and -0.2 for the
\* next two: scores 0.5, 1.0 and 0.0
C14_Witness ==
    /\ rr_pc = "done"
    /\ rr_output.success
    /\ Len(rr_responses) = 3
    /\ rr_responses[1].kind = "error"
    /\ rr_responses[2] = [kind |-> "number", value |-> 12]
    /\ rr_responses[3] = [kind |-> "number", value |-> -2]
    /\ \E i, j, k \in 1..Len(rr_reranked) :
           /\ rr_reranked[i].id = 1 /\ rr_reranked[i].rerank_score = Float(5)
           /\ rr_reranked[j].id = 2 /\ rr_reranked[j].rerank_score = Float(10)
           /\ rr_reranked[k].id = 3 /\ rr_reranked[k].rerank_score = Float(0)
\* min(n, 2 * top_k) for the n chunks given
PrefixLength ==
    IF 2 * rr_top_k < Len(rr_chunks_json[1])
    THEN 2 * rr_top_k
    ELSE Len(rr_chunks_json[1])

\* the chunk was given, at the position that is its id, with this fused score
GivenChunk(chunk) ==
    /\ chunk.id \in 1..Len(rr_chunks_json[1])
    /\ chunk.score = rr_chunks_json[1][chunk.id].score

\* C22: the scorer is called once for each of the first min(n, 2 * top_k)
\* chunks and for no other; the chunks returned are the first top_k of the
\* scored ones in an order of non-increasing rerank_score, each one with the
\* fused score it came with, and no chunk left out has a higher rerank_score
\* than one returned, whatever the fused scores are.
C22_ScoresPrefixAndOrdersByRerank ==
    rr_pc = "done" /\ rr_chunks_json # Null =>
        LET out == rr_output.chunks
        IN  /\ Len(rr_responses) = PrefixLength
            /\ Len(rr_reranked) = PrefixLength
            /\ {rr_reranked[i].id : i \in 1..Len(rr_reranked)} = 1..PrefixLength
            /\ Len(out) = IF rr_top_k < PrefixLength THEN rr_top_k ELSE PrefixLength
            /\ \A i \in 1..Len(out) :
                   /\ out[i] = rr_reranked[i]
                   /\ GivenChunk(out[i])
                   /\ out[i].rerank_score = score_relevance(rr_responses[out[i].id])
            /\ \A i, j \in 1..Len(rr_reranked) :
                   i < j => ~FloatLt(rr_reranked[i].rerank_score,
                                     rr_reranked[j].rerank_score)

\* three chunks and top_k = 1: the first two are scored, and the second one,
\* of the lower fused score and the higher rerank_score, is the one returned
C22_Witness ==
    /\ rr_pc = "done"
    /\ rr_output.success
    /\ rr_top_k = 1
    /\ Len(rr_chunks_json[1]) = 3
    /\ rr_chunks_json[1][1].score > rr_chunks_json[1][2].score
    /\ Len(rr_responses) = 2
    /\ Len(rr_output.chunks) = 1
    /\ rr_output.chunks[1].id = 2
    /\ FloatLt(rr_reranked[2].rerank_score, rr_reranked[1].rerank_score)

\* C29: chunks of equal rerank_score, two that both got the neutral 0.5
\* included, come back in the order they were given in, a chunk left out
\* never having been given before a returned chunk of the same rerank_score;
\* when all rerank scores are equal the chunks returned are the first top_k
\* chunks given, in the order given.
C29_TiesKeepInputOrder ==
    rr_pc = "done" /\ rr_chunks_json # Null =>
        LET out == rr_output.chunks
        IN  /\ \A i, j \in 1..Len(rr_reranked) :
                   (i < j /\ rr_reranked[i].rerank_score = rr_reranked[j].rerank_score)
                       => rr_reranked[i].id < rr_reranked[j].id
            /\ \A i \in 1..Len(out) : \A j \in 1..Len(rr_reranked) :
                   (out[i].rerank_score = rr_reranked[j].rerank_score
                    /\ rr_reranked[j].id < out[i].id)
                       => \E h \in 1..Len(out) : out[h].id = rr_reranked[j].id
            /\ (\A i, j \in 1..Len(rr_reranked) :
                    rr_reranked[i].rerank_score = rr_reranked[j].rerank_score)
                   => /\ Len(out) = IF rr_top_k < Len(rr_chunks_json[1])
                                    THEN rr_top_k ELSE Len(rr_chunks_json[1])
                      /\ \A i \in 1..Len(out) : out[i].id = i

\* the scorer failed for the first two of three chunks and answered 0.8 for
\* the third: with top_k = 2 the third and the first come back, and the
\* second, tied with the first, is left out
C29_Witness ==
    /\ rr_pc = "done"
    /\ rr_output.success
    /\ rr_top_k = 2
    /\ Len(rr_responses) = 3
    /\ rr_responses[1].kind = "error"
    /\ rr_responses[2].kind = "empty"
    /\ rr_responses[3] = [kind |-> "number", value |-> 8]
    /\ Len(rr_output.chunks) = 2
    /\ rr_output.chunks[1].id = 3
    /\ rr_output.chunks[2].id = 1
    /\ rr_reranked[3].id = 2
\* ------------------------------------------------------------------------
\* Claims about the indexing pipeline
\* ------------------------------------------------------------------------
\* the chunk carries an embedding
HasEmbedding(chunk) ==
    /\ "embedding" \in DOMAIN chunk
    /\ chunk.embedding # None

\* ix_processed is a sub-sequence of ix_chunks in original order (the
\* dictionaries are those of the list given, now holding the embedding),
\* every chunk of it with the embedding of its content
ProcessedIsFiltered ==
    /\ \A i \in 1..Len(ix_processed) :
           /\ ix_processed[i].chunk_index + 1 \in 1..Len(ix_chunks)
           /\ ix_chunks[ix_processed[i].chunk_index + 1] = ix_processed[i]
           /\ HasEmbedding(ix_processed[i])
           /\ ix_processed[i].embedding = Embedding(ix_processed[i].content)
    /\ \A i, j \in 1..Len(ix_processed) :
           i < j => ix_processed[i].chunk_index < ix_processed[j].chunk_index

\* C23: every chunk passed to store_chunk, and so every row stored, carries
\* an embedding; what process_chunks returns is a sub-sequence of its input
\* in original order whose chunks all carry their embedding, and the number
\* of chunks returned plus failed_count is the number of chunks given.
C23_NoChunkStoredWithoutVector ==
    /\ \A i \in 1..Len(ix_store_calls) : HasEmbedding(ix_store_calls[i])
    /\ \A i \in 1..Len(ix_stored) : HasEmbedding(ix_stored[i])
    /\ ix_pc \in {"processed", "done"} =>
           /\ ProcessedIsFiltered
           /\ Len(ix_processed) + ix_failed = Len(ix_chunks)

\* of three chunks in batches of two the second got no embedding: the first
\* and the third were returned, one failure was counted, and both were
\* passed to store_chunk
C23_Witness ==
    /\ ix_pc = "done"
    /\ Len(ix_chunks) = 3
    /\ ix_batch_size = 2
    /\ Len(ix_processed) = 2
    /\ ix_processed[1].chunk_index = 0
    /\ ix_processed[2].chunk_index = 2
    /\ ix_failed = 1
    /\ Len(ix_store_calls) = 2
    /\ Len(ix_stored) = 2
\* ------------------------------------------------------------------------
\* Claims about concurrent operations on sessions
\* ------------------------------------------------------------------------
\* C27: there is at most one conversation row for a session identifier,
\* and, whatever the interleaving of the window reads and appends that
\* reference a session identifier (no clear_conversation among them), no
\* operation ends with an error and every add_message that ended has stored
\* its turn.
C27_LazyCreationSafe ==
    /\ \A session_id \in Sessions :
           Cardinality({i \in 1..Len(conv_table) :
                           conv_table[i].session_id = session_id}) <= 1
    /\ (\A q \in Requests : goc[q].op # "clear_conversation") =>
           \A r \in Requests :
               goc[r].pc = "done" =>
                   /\ goc[r].result.status = "returned"
                   /\ goc[r].op = "add_message" =>
                          \E i \in 1..Len(goc_messages) : goc_messages[i].origin = r

====
